---- MODULE Spec2Model ----
(***************************************************************************)
(* Model of the AI controller of space-impact: the two targeting           *)
(* strategies of strategy.py (AggressiveStrategy, EnhancedAIStrategy) and  *)
(* the motion controller Ship.update_ai of ship.py.                        *)
(*                                                                         *)
(* Numbers.  Positions are the integer pixel coordinates pygame keeps in   *)
(* a Rect.  Velocities are Python floats; they are kept here in            *)
(* thousandths of a pixel (every gain and cap of ship.py is a multiple of  *)
(* 0.001).  Assigning a float to rect.y truncates it; after the boundary   *)
(* clamp the value is never negative unless it is the integer              *)
(* height - rect.height, so the truncation is a floor.  Distances are      *)
(* compared through their squares (math.sqrt is monotone).                 *)
(***************************************************************************)
EXTENDS Integers, Sequences, FiniteSets, TLC

(* ---------------- program constants ---------------- *)

resolution_width == 1152
resolution_height == 648

\* 80*int(screen_width*0.0019) and 56*int(screen_width*0.0019), int(2.1888) = 2
ShipWidth == 160
ShipHeight == 112

\* rect.center = (int(screen_width*0.07), int(screen_height*0.5)) = (80, 324)
ShipCenterX == 80
ShipStartCenterY == 324

\* settings.bullet_speed = screen_width*0.01 = 11.52, in thousandths
BulletSpeedMilli == 11520

\* ai_ship_speed = screen_width*0.005*8.0 = 46.08, in thousandths
AiShipSpeedMilli == 46080

\* Alien image: 80*2 by 40*2; BossBullet: int(23.04*1.5) by int(12.96*1.5);
\* Powerup: radius 15
AlienWidth == 160
AlienHeight == 80
BulletWidth == 34
BulletHeight == 19
PowerupSize == 30

(* ---------------- bounds of the model ---------------- *)

\* longest collection handed to select_target in the selector specification
MaxBullets == 2
MaxPowerups == 2
MaxAliens == 2

(* ---------------- entities ---------------- *)

\* Absence of a velocity attribute.
NoVelocity == <<>>

\* Python's None, as a record of the same shape as an entity.
None == [kind |-> "none", cx |-> 0, cy |-> 0, w |-> 0, h |-> 0,
         type |-> "none", velocity |-> NoVelocity, is_boss |-> FALSE]

\* A sprite: rect centre and size, the powerup's type, the optional velocity
\* tuple and the optional is_boss flag.
Entity(kind, cx, cy, w, h, type, velocity, is_boss) ==
    [kind |-> kind, cx |-> cx, cy |-> cy, w |-> w, h |-> h,
     type |-> type, velocity |-> velocity, is_boss |-> is_boss]

Alien(cx, cy) == Entity("alien", cx, cy, AlienWidth, AlienHeight, "none", NoVelocity, FALSE)
BossBullet(cx, cy, velocity) == Entity("bullet", cx, cy, BulletWidth, BulletHeight, "none", velocity, FALSE)
Powerup(type, cx, cy) == Entity("powerup", cx, cy, PowerupSize, PowerupSize, type, NoVelocity, FALSE)
Boss(cx, cy, w, h, velocity, is_boss) == Entity("boss", cx, cy, w, h, "none", velocity, is_boss)

\* pygame.Rect: left = centerx - w // 2
RectLeft(e) == e.cx - (e.w \div 2)

\* The ship as the strategies see it: ship.rect with rect.x = 0.
ShipRect(y) == [kind |-> "ship", cx |-> ShipCenterX, cy |-> y + (ShipHeight \div 2),
                top |-> y, right |-> ShipWidth, h |-> ShipHeight]

Abs(n) == IF n < 0 THEN -n ELSE n
Max(a, b) == IF a >= b THEN a ELSE b

(* ---------------- geometry ---------------- *)

\* _distance, squared: (x1-x2)**2 + (y1-y2)**2
Distance2(a, b) == (a.cx - b.cx) * (a.cx - b.cx) + (a.cy - b.cy) * (a.cy - b.cy)

\* the elements of a sequence
Range(s) == {s[i] : i \in 1..Len(s)}

\* list.sort(key=...) followed by [0]: Python's sort is stable, so the result
\* is the first element, in iteration order, whose key is minimal.  keys[i]
\* is the key of s[i].
FirstMin(s, keys) ==
    LET i == CHOOSE i \in 1..Len(s) :
                 /\ \A j \in 1..Len(s) : keys[i] <= keys[j]
                 /\ \A j \in 1..(i-1) : keys[j] > keys[i]
    IN s[i]

(* ---------------- threat detector (shared by both strategies) ---------------- *)

horizontal_danger == 250
vertical_range_min == 70
enemy_horizontal_danger == 70
enemy_vertical_danger == 50

\* vertical_range = max(70, ship_height * 1.5), doubled to stay in integers
VerticalRange2(ship) == Max(2 * vertical_range_min, 3 * ship.h)

\* The zone test of _find_dangerous_bullet: ahead of the ship, less than 250
\* ahead, vertical offset below the vertical range.
InBulletZone(ship, bullet) ==
    /\ bullet.cx > ship.cx
    /\ bullet.cx - ship.cx < horizontal_danger
    /\ 2 * Abs(bullet.cy - ship.cy) < VerticalRange2(ship)

\* trajectory_factor = 0.5: the bullet has a vertical velocity, reaches the
\* ship's x in the future (time_to_reach_ship_x > 0; with bullet_vel_x = 0
\* the time is inf and the projected y is infinite) and its projected y is
\* within one ship height.  |by + vy*(sx-bx)/vx - sy| < h, multiplied by |vx|.
OnCollisionCourse(ship, bullet) ==
    /\ bullet.velocity # NoVelocity
    /\ LET vx == bullet.velocity[1]
           vy == bullet.velocity[2]
       IN /\ vy # 0
          /\ vx # 0
          /\ (ship.cx - bullet.cx) * vx > 0
          /\ Abs((bullet.cy - ship.cy) * vx + vy * (ship.cx - bullet.cx)) < ship.h * Abs(vx)

\* danger_score = distance * trajectory_factor, compared through
\* 4 * score^2 = distance^2 * (1 or 4)
DangerScore(ship, bullet) ==
    Distance2(ship, bullet) * (IF OnCollisionCourse(ship, bullet) THEN 1 ELSE 4)

\* _find_dangerous_bullet returning the first bullet of the zone instead of
\* the one of lowest danger score
FindDangerousBullet_First(ship, bullets) ==
    LET InZone(b) == InBulletZone(ship, b)
        dangerous_bullets == SelectSeq(bullets, InZone)
    IN IF dangerous_bullets # <<>> THEN dangerous_bullets[1] ELSE None

\* _find_dangerous_bullet (identical in both strategies)
FindDangerousBullet(ship, bullets) ==
    LET InZone(b) == InBulletZone(ship, b)
        Score(b) == DangerScore(ship, b)
        dangerous_bullets == SelectSeq(bullets, InZone)
    IN IF dangerous_bullets # <<>> THEN FirstMin(dangerous_bullets, [i \in 1..Len(dangerous_bullets) |->
                        Score(dangerous_bullets[i])]) ELSE None

\* The test of _find_dangerous_enemy on one alien.
IsDangerousEnemy(ship, alien) ==
    /\ RectLeft(alien) - ship.right < enemy_horizontal_danger
    /\ Abs(alien.cy - ship.cy) < enemy_vertical_danger

\* _find_dangerous_enemy (identical in both strategies)
FindDangerousEnemy(ship, aliens) ==
    LET Close(a) == IsDangerousEnemy(ship, a)
        Dist(a) == Distance2(ship, a)
        dangerous_aliens == SelectSeq(aliens, Close)
    IN IF dangerous_aliens # <<>> THEN FirstMin(dangerous_aliens, [i \in 1..Len(dangerous_aliens) |->
                        Dist(dangerous_aliens[i])]) ELSE None

(* ---------------- scoring helpers (shared by both strategies) ---------------- *)

\* _is_ahead
IsAhead(ship, obj) == obj.cx > ship.cx

\* _find_nearest_powerup without the preference for powerups ahead
FindNearestPowerup_NoPreference(ship, powerups) ==
    LET Dist(p) == Distance2(ship, p)
    IN IF powerups # <<>> THEN FirstMin(powerups, [i \in 1..Len(powerups) |->
                        Dist(powerups[i])])
       ELSE None

\* _find_nearest_powerup: nearest of the powerups ahead, else nearest of the others
FindNearestPowerup(ship, powerups) ==
    LET Ahead(p) == IsAhead(ship, p)
        Behind(p) == ~IsAhead(ship, p)
        Dist(p) == Distance2(ship, p)
        ahead_powerups == SelectSeq(powerups, Ahead)
        other_powerups == SelectSeq(powerups, Behind)
    IN IF ahead_powerups # <<>> THEN FirstMin(ahead_powerups, [i \in 1..Len(ahead_powerups) |->
                        Dist(ahead_powerups[i])])
       ELSE IF other_powerups # <<>> THEN FirstMin(other_powerups, [i \in 1..Len(other_powerups) |->
                        Dist(other_powerups[i])])
       ELSE None

\* _find_high_value_powerup: nearest powerup closer than 150
FindHighValuePowerup(ship, powerups) ==
    LET Close(p) == Distance2(ship, p) < 150 * 150
        Dist(p) == Distance2(ship, p)
        close_powerups == SelectSeq(powerups, Close)
    IN IF close_powerups # <<>> THEN FirstMin(close_powerups, [i \in 1..Len(close_powerups) |->
                        Dist(close_powerups[i])]) ELSE None

\* _find_high_value_offensive_powerup without the test of the type
FindHighValueOffensivePowerup_AnyType(ship, powerups) ==
    LET Offensive(p) == Distance2(ship, p) < 150 * 150
        Dist(p) == Distance2(ship, p)
        offensive_powerups == SelectSeq(powerups, Offensive)
    IN IF offensive_powerups # <<>> THEN FirstMin(offensive_powerups, [i \in 1..Len(offensive_powerups) |->
                        Dist(offensive_powerups[i])]) ELSE None

\* _find_high_value_offensive_powerup: nearest green or orange powerup closer than 150
FindHighValueOffensivePowerup(ship, powerups) ==
    LET Offensive(p) == p.type \in {"green", "orange"} /\ Distance2(ship, p) < 150 * 150
        Dist(p) == Distance2(ship, p)
        offensive_powerups == SelectSeq(powerups, Offensive)
    IN IF offensive_powerups # <<>> THEN FirstMin(offensive_powerups, [i \in 1..Len(offensive_powerups) |->
                        Dist(offensive_powerups[i])]) ELSE None

\* _is_easily_reachable with the distance limit halved
IsEasilyReachable_Half(ship, obj) ==
    Distance2(ship, obj) < 60 * 60 /\ Abs(ship.cy - obj.cy) < 60

\* _is_easily_reachable: distance < 120 and abs(ship_y - obj_y) < 60
IsEasilyReachable(ship, obj) ==
    Distance2(ship, obj) < 120 * 120 /\ Abs(ship.cy - obj.cy) < 60

\* _find_nearest_alien without the position score: minimal distance
FindNearestAlien_ByDistance(ship, aliens) ==
    LET Score(a) == Distance2(ship, a)
    IN IF aliens # <<>> THEN FirstMin(aliens, [i \in 1..Len(aliens) |->
                        Score(aliens[i])]) ELSE None

\* _find_nearest_alien: minimal distance * position_score (0.7 ahead, 1.5
\* otherwise), compared through 100 * score^2 = distance^2 * (49 or 225)
FindNearestAlien(ship, aliens) ==
    LET Score(a) == Distance2(ship, a) * (IF a.cx > ship.cx THEN 49 ELSE 225)
    IN IF aliens # <<>> THEN FirstMin(aliens, [i \in 1..Len(aliens) |->
                        Score(aliens[i])]) ELSE None

Result(action, target) == [action |-> action, target |-> target]

(* ---------------- AggressiveStrategy ---------------- *)

\* AggressiveStrategy.select_target without the enemy step: patrol although
\* an enemy is present
AggressiveSelectTarget_NoAlienStep(ship, aliens, boss, powerups, boss_bullets) ==
    LET dangerous_bullet == FindDangerousBullet(ship, boss_bullets)
        dangerous_enemy == FindDangerousEnemy(ship, aliens)
        high_value_powerup == FindHighValuePowerup(ship, powerups)
        nearest_powerup == FindNearestPowerup(ship, powerups)
    IN IF dangerous_bullet # None THEN Result("dodge", dangerous_bullet)
       ELSE IF dangerous_enemy # None THEN Result("dodge", dangerous_enemy)
       ELSE IF boss # None
            THEN IF high_value_powerup # None /\ IsEasilyReachable(ship, high_value_powerup)
                 THEN Result("target_powerup", high_value_powerup)
                 ELSE Result("target_boss", boss)
       ELSE IF nearest_powerup # None THEN Result("target_powerup", nearest_powerup)
       ELSE Result("patrol", None)

\* AggressiveStrategy.select_target.  A collection that is None behaves as
\* the empty one (every use is guarded by its truth value).
AggressiveSelectTarget(ship, aliens, boss, powerups, boss_bullets) ==
    LET dangerous_bullet == FindDangerousBullet(ship, boss_bullets)
        dangerous_enemy == FindDangerousEnemy(ship, aliens)
        high_value_powerup == FindHighValuePowerup(ship, powerups)
        nearest_powerup == FindNearestPowerup(ship, powerups)
        nearest_alien == FindNearestAlien(ship, aliens)
    IN IF dangerous_bullet # None THEN Result("dodge", dangerous_bullet)
       ELSE IF dangerous_enemy # None THEN Result("dodge", dangerous_enemy)
       ELSE IF boss # None
            THEN IF high_value_powerup # None /\ IsEasilyReachable(ship, high_value_powerup)
                 THEN Result("target_powerup", high_value_powerup)
                 ELSE Result("target_boss", boss)
       ELSE IF nearest_powerup # None THEN Result("target_powerup", nearest_powerup)
       ELSE IF nearest_alien # None THEN Result("target_alien", nearest_alien)
       ELSE Result("patrol", None)

(* ---------------- EnhancedAIStrategy ---------------- *)

detection_range == 1500
threat_threshold == 150

\* _filter_within_range keeping every object
FilterWithinRange_NoLimit(ship, objects) ==
    LET InRange(o) == TRUE
    IN SelectSeq(objects, InRange)

\* _filter_within_range
FilterWithinRange(ship, objects) ==
    LET InRange(o) == Distance2(ship, o) <= detection_range * detection_range
    IN SelectSeq(objects, InRange)

\* _is_threatening with a threshold of 50
IsThreatening_Within50(ship, obj) ==
    obj # None /\ Distance2(ship, obj) < 50 * 50

\* _is_threatening
IsThreatening(ship, obj) ==
    obj # None /\ Distance2(ship, obj) < threat_threshold * threat_threshold

\* EnhancedAIStrategy.select_target with the boss step moved above the
\* threat checks
EnhancedSelectTarget_BossFirst(ship, aliens, boss, powerups, boss_bullets) ==
    LET filtered_boss_bullets == FilterWithinRange(ship, boss_bullets)
        dangerous_bullet == FindDangerousBullet(ship, filtered_boss_bullets)
    IN IF boss # None /\ Distance2(ship, boss) <= detection_range * detection_range
       THEN Result("target_boss", boss)
       ELSE IF dangerous_bullet # None /\ IsThreatening(ship, dangerous_bullet)
       THEN Result("dodge", dangerous_bullet)
       ELSE Result("patrol", None)

\* EnhancedAIStrategy.select_target
EnhancedSelectTarget(ship, aliens, boss, powerups, boss_bullets) ==
    LET filtered_aliens == FilterWithinRange(ship, aliens)
        filtered_powerups == FilterWithinRange(ship, powerups)
        filtered_boss_bullets == FilterWithinRange(ship, boss_bullets)
        filtered_boss == IF boss # None /\ Distance2(ship, boss) <= detection_range * detection_range
                         THEN boss ELSE None
        dangerous_bullet == FindDangerousBullet(ship, filtered_boss_bullets)
        dangerous_enemy == FindDangerousEnemy(ship, filtered_aliens)
        offensive_powerup == FindHighValueOffensivePowerup(ship, filtered_powerups)
        nearest_powerup == FindNearestPowerup(ship, filtered_powerups)
        nearest_alien == FindNearestAlien(ship, filtered_aliens)
    IN IF dangerous_bullet # None /\ IsThreatening(ship, dangerous_bullet)
       THEN Result("dodge", dangerous_bullet)
       ELSE IF dangerous_enemy # None /\ IsThreatening(ship, dangerous_enemy)
       THEN Result("dodge", dangerous_enemy)
       ELSE IF filtered_boss # None
            THEN IF offensive_powerup # None /\ IsEasilyReachable(ship, offensive_powerup)
                 THEN Result("target_powerup", offensive_powerup)
                 ELSE Result("target_boss", filtered_boss)
       ELSE IF nearest_powerup # None THEN Result("target_powerup", nearest_powerup)
       ELSE IF nearest_alien # None THEN Result("target_alien", nearest_alien)
       ELSE Result("patrol", None)

(* ---------------- predictive aim engine ---------------- *)

\* Absence of a shooter (ship=None).
NoShooter == [kind |-> "none", cx |-> 0, cy |-> 0, top |-> 0, right |-> 0, h |-> 0]

RECURSIVE SqrtSearch(_, _, _)
\* largest r in lo..hi with r*r <= n
SqrtSearch(n, lo, hi) ==
    IF lo >= hi THEN lo
    ELSE LET mid == (lo + hi + 1) \div 2
         IN IF mid * mid <= n THEN SqrtSearch(n, mid, hi) ELSE SqrtSearch(n, lo, mid - 1)

\* math.sqrt(d2) in tenths of a pixel, rounded down
SqrtTenths(d2) == SqrtSearch(100 * d2, 0, 46000)

\* time_to_target without the 0.5 default: 0 when no shooter is given
TimeToTargetMilli_NoDefault(target, projectile_speed_milli, shooter) ==
    IF shooter = NoShooter THEN 0
    ELSE IF projectile_speed_milli > 0
         THEN (SqrtTenths(Distance2(target, shooter)) * 100000) \div projectile_speed_milli
         ELSE 0

\* time_to_target in thousandths: distance / projectile_speed if the speed is
\* positive, 0 otherwise; 0.5 without a shooter.  The quotient is rounded down.
TimeToTargetMilli(target, projectile_speed_milli, shooter) ==
    IF shooter = NoShooter THEN 500
    ELSE IF projectile_speed_milli > 0
         THEN (SqrtTenths(Distance2(target, shooter)) * 100000) \div projectile_speed_milli
         ELSE 0

\* predict_target_position without the first statement
ReturnsEarly_Never(target) == FALSE

\* predict_target_position, lines 722-724: hasattr(target, 'is_boss') and
\* target.is_boss, the test of the first statement
ReturnsEarly(target) == target.is_boss

\* hasattr(target, 'pattern')
HasPattern(target) == "pattern" \in DOMAIN target

\* predict_target_position without the early return for a boss
PredictTargetPosition_NoBossReturn(target, projectile_speed_milli, shooter) ==
    LET target_vx == IF target.velocity # NoVelocity THEN target.velocity[1] ELSE 0
        target_vy == IF target.velocity # NoVelocity THEN target.velocity[2] ELSE 0
        time_to_target == TimeToTargetMilli(target, projectile_speed_milli, shooter)
    IN [x |-> 1000 * target.cx + target_vx * time_to_target,
        y |-> 1000 * target.cy + target_vy * time_to_target]

\* predict_target_position (the same text in AggressiveStrategy, twice, and in
\* EnhancedAIStrategy).  The result is in thousandths of a pixel.  The block
\* of lines 760-773 adds half a step of a vertical speed above 2 for a
\* target flagged is_boss.
PredictTargetPosition(target, projectile_speed_milli, shooter) ==
    IF ReturnsEarly(target)
    THEN [x |-> 1000 * target.cx, y |-> 1000 * target.cy]
    ELSE LET target_vx == IF target.velocity # NoVelocity THEN target.velocity[1] ELSE 0
             target_vy == IF target.velocity # NoVelocity THEN target.velocity[2] ELSE 0
             time_to_target == TimeToTargetMilli(target, projectile_speed_milli, shooter)
             half_step == IF target.is_boss /\ Abs(target_vy) > 2 THEN target_vy * 500 ELSE 0
         IN [x |-> 1000 * target.cx + target_vx * time_to_target,
             y |-> 1000 * target.cy + target_vy * time_to_target + half_step]

\* The statements a call of predict_target_position runs: the return of the
\* first statement; the prediction alone; the prediction and the block of
\* lines 760-773; or that block up to the NameError of line 770, where
\* 'abs(target_vy) < 0.5 and target_y > 400' reads target_y, a name the
\* function never assigns (its vertical speeds are whole numbers here).
PredictPath(target) ==
    LET target_vy == IF target.velocity # NoVelocity THEN target.velocity[2] ELSE 0
    IN IF ReturnsEarly(target) THEN "early_return"
       ELSE IF ~target.is_boss THEN "prediction"
       ELSE IF HasPattern(target) /\ target.pattern = "zigzag" /\ target_vy = 0
            THEN "raised"
       ELSE "boss_block"

(* ---------------- motion controller: Ship.update_ai ---------------- *)

\* state_mapping with the entry for 'target_alien' lost
StateMapping_NoAlien(action) ==
    CASE action = "dodge" -> "dodge"
      [] action = "target_boss" -> "engage_boss"
      [] action = "target_powerup" -> "collect_powerup"
      [] OTHER -> "patrol"

\* state_mapping.get(action, 'patrol')
StateMapping(action) ==
    CASE action = "dodge" -> "dodge"
      [] action = "target_boss" -> "engage_boss"
      [] action = "target_alien" -> "engage_enemy"
      [] action = "target_powerup" -> "collect_powerup"
      [] action = "patrol" -> "patrol"
      [] OTHER -> "patrol"

\* the boss override storing the selector's action name instead of the state
NewState_RawAction(action, boss) ==
    IF boss # None /\ StateMapping(action) # "dodge"
    THEN "target_boss"
    ELSE StateMapping(action)

\* new_state after the boss override of update_ai
NewState(action, boss) ==
    IF boss # None /\ StateMapping(action) # "dodge"
    THEN "engage_boss"
    ELSE StateMapping(action)

\* target after the boss override of update_ai
NewTarget(action, target, boss) ==
    IF boss # None /\ StateMapping(action) # "dodge" THEN boss ELSE target

\* the velocity left unclamped
Clamp_None(v, cap) == v

\* if v > cap: v = cap / elif v < -cap: v = -cap
Clamp(v, cap) == IF v > cap THEN cap ELSE IF v < -cap THEN -cap ELSE v

\* dodge branch: diff = rect.centery - target.rect.centery, forced to -50 or
\* 50 when below 30; the test rect.top > max_dodge_speed * 2 is top > 184.32
DodgeDiff(ship, target) ==
    LET diff == ship.cy - target.cy
    IN IF Abs(diff) < 30
       THEN (IF 1000 * ship.top > 4 * AiShipSpeedMilli THEN -50 ELSE 50)
       ELSE diff

\* vertical_velocity = -diff * dodge_factor, clamped to max_dodge_speed
DodgeVelocity(ship, target) ==
    Clamp(-DodgeDiff(ship, target) * 500, 2 * AiShipSpeedMilli)

\* engage_boss branch with the damping of engage_enemy
EngageBossVelocity_Damping45(ship, target) ==
    LET predicted == PredictTargetPosition(target, BulletSpeedMilli, ship)
        diff == predicted.y - 1000 * ship.cy
    IN IF Abs(diff) > 5000
       THEN Clamp((diff * 450) \div 1000, (5 * AiShipSpeedMilli) \div 2)
       ELSE 0

\* engage_boss branch: dead zone 5, damping 0.65, cap 2.5 * max_speed
EngageBossVelocity(ship, target) ==
    LET predicted == PredictTargetPosition(target, BulletSpeedMilli, ship)
        diff == predicted.y - 1000 * ship.cy
    IN IF Abs(diff) > 5000
       THEN Clamp((diff * 650) \div 1000, (5 * AiShipSpeedMilli) \div 2)
       ELSE 0

\* collect_powerup branch with a gain above one
CollectPowerupVelocity_Gain155(ship, target) ==
    LET diff == target.cy - ship.cy
    IN IF Abs(diff) > 10
       THEN Clamp(diff * 1550, (3 * AiShipSpeedMilli) \div 2)
       ELSE 0

\* collect_powerup branch: dead zone 10, damping 0.55, cap 1.5 * max_speed
CollectPowerupVelocity(ship, target) ==
    LET diff == target.cy - ship.cy
    IN IF Abs(diff) > 10
       THEN Clamp(diff * 550, (3 * AiShipSpeedMilli) \div 2)
       ELSE 0

\* engage_enemy branch with the boss's dead zone of 5
EngageEnemyVelocity_DeadZone5(ship, target) ==
    LET diff == target.cy - ship.cy
    IN IF Abs(diff) > 5
       THEN Clamp(diff * 450, AiShipSpeedMilli)
       ELSE 0

\* engage_enemy branch: dead zone 15, damping 0.45, cap max_speed
EngageEnemyVelocity(ship, target) ==
    LET diff == target.cy - ship.cy
    IN IF Abs(diff) > 15
       THEN Clamp(diff * 450, AiShipSpeedMilli)
       ELSE 0

\* patrol branch steering away from the middle of the screen
PatrolVelocity_Away(ship, screen_height) ==
    LET diff == 1000 * ship.cy - 500 * screen_height
    IN IF Abs(diff) > 15000
       THEN Clamp((diff * 150) \div 1000, (6 * AiShipSpeedMilli) \div 10)
       ELSE 0

\* patrol branch: screen_middle = height * 0.5, dead zone 15, damping 0.15,
\* cap 0.6 * max_speed (27.648)
PatrolVelocity(ship, screen_height) ==
    LET diff == 500 * screen_height - 1000 * ship.cy
    IN IF Abs(diff) > 15000
       THEN Clamp((diff * 150) \div 1000, (6 * AiShipSpeedMilli) \div 10)
       ELSE 0

\* STEP 2 of update_ai: the if/elif chain over ai_state; a state whose
\* target is None falls through every branch and keeps velocity 0
VerticalVelocity(state, target, ship, screen_height) ==
    IF state = "dodge" /\ target # None THEN DodgeVelocity(ship, target)
    ELSE IF state = "engage_boss" /\ target # None THEN EngageBossVelocity(ship, target)
    ELSE IF state = "collect_powerup" /\ target # None THEN CollectPowerupVelocity(ship, target)
    ELSE IF state = "engage_enemy" /\ target # None THEN EngageEnemyVelocity(ship, target)
    ELSE IF state = "patrol" THEN PatrolVelocity(ship, screen_height)
    ELSE 0

\* The one product of update_ai that binary floating point gets wrong by more
\* than the later truncation forgives: -100 * 0.55 is -55.00000000000001, and
\* for sums below 64 the addition rect.y + velocity keeps the deficit.
FloatDeficit(state, target, ship, y) ==
    IF /\ state = "collect_powerup"
       /\ target # None
       /\ target.cy - ship.cy = -100
       /\ y - 55 <= 64
    THEN 1 ELSE 0

\* the assignment to rect.y without the boundary clamp
ApplyVelocity_NoClamp(y, velocity, deficit, screen_height) ==
    (1000 * y + velocity - deficit) \div 1000

\* new_y = rect.y + velocity, clamped to the screen, assigned to rect.y
\* (truncated to an integer)
ApplyVelocity(y, velocity, deficit, screen_height) ==
    LET new_y == 1000 * y + velocity - deficit
    IN IF new_y < 0 THEN 0
       ELSE IF new_y + 1000 * ShipHeight > 1000 * screen_height THEN screen_height - ShipHeight
       ELSE new_y \div 1000

(* ---------------- state ---------------- *)

VARIABLES
    rect_y,                      \* ship.rect.y
    screen_height,               \* screen.get_size()[1] of the resizable window
    strategy,                    \* the strategy object in use
    ai_state,                    \* ship.ai_state
    current_target,              \* ship.current_target
    boss_engaged,                \* ship.boss_engaged
    active_powerup,              \* ship.active_powerup
    powerup_stacks,              \* ship.powerup_stacks
    invulnerable,                \* ship.invulnerable
    invulnerability_start_time,  \* ship.invulnerability_start_time
    invulnerability_duration,    \* ship.invulnerability_duration
    clock,                       \* pygame.time.get_ticks()
    last_op,                     \* the operation that ran last
    aliens,                      \* arguments of the last call
    boss,
    powerups,
    boss_bullets,
    selected,                    \* (action, target) returned by select_target
    vertical_velocity,           \* vertical_velocity of the last update_ai
    old_y,                       \* rect.y when the last update_ai was entered
    predict_args,                \* arguments of predict_target_position
    predicted,                   \* its return value
    predict_path,                \* the statements of the call that ran last
    ships_left,                  \* stats.ships_left
    game_active,                 \* stats.game_active
    si_boss_active,              \* SpaceImpact.boss_active
    si_boss,                     \* SpaceImpact.boss
    si_boss_bullets,             \* SpaceImpact.boss_bullets, the sprite group
    green_powerups,              \* stats.green_powerups
    orange_powerups,             \* stats.orange_powerups
    yellow_powerups,             \* stats.yellow_powerups
    last_shot,                   \* what the last _fire_bullet added to the bullets
    last_boss_death_time,        \* SpaceImpact.last_boss_death_time
    last_spawn_time              \* get_ticks() at the last _spawn_boss, -1 before the first

vars == <<rect_y, screen_height, strategy, ai_state, current_target, boss_engaged,
          active_powerup, powerup_stacks, invulnerable, invulnerability_start_time,
          invulnerability_duration, clock, last_op, aliens, boss, powerups,
          boss_bullets, selected, vertical_velocity, old_y, predict_args, predicted,
          predict_path, ships_left, game_active, si_boss_active, si_boss, si_boss_bullets,
          green_powerups, orange_powerups, yellow_powerups, last_shot,
          last_boss_death_time, last_spawn_time>>

shipVars == <<rect_y, ai_state, current_target, boss_engaged, active_powerup,
              powerup_stacks, invulnerable, invulnerability_start_time,
              invulnerability_duration>>

callVars == <<aliens, boss, powerups, boss_bullets, selected, vertical_velocity, old_y>>

predictVars == <<predict_args, predicted, predict_path>>

gameVars == <<ships_left, game_active, si_boss_active, si_boss, si_boss_bullets,
              green_powerups, orange_powerups, yellow_powerups, last_shot,
              last_boss_death_time, last_spawn_time>>

\* settings.ships_limit
ships_limit == 3

\* SpaceImpact.__init__ and GameStats.reset_stats: no boss, an empty
\* boss_bullets group, no powerup collected, nothing fired
NoBossFight ==
    /\ si_boss_active = FALSE
    /\ si_boss = None
    /\ si_boss_bullets = <<>>
    /\ green_powerups = 0
    /\ orange_powerups = 0
    /\ yellow_powerups = 0
    /\ last_shot = "none"
    /\ last_boss_death_time = 0
    /\ last_spawn_time = -1

\* a game in progress with all its lives: GameStats.reset_stats and
\* stats.game_active = True
GameRunning ==
    /\ ships_left = ships_limit
    /\ game_active = TRUE
    /\ NoBossFight

NoArgs == [target |-> None, projectile_speed |-> 0, ship |-> NoShooter]
NoPosition == [x |-> 0, y |-> 0]

\* Ship.__init__ (with the window SpaceImpact.__init__ opens) and no call made yet
ShipInit ==
    /\ rect_y = ShipStartCenterY - (ShipHeight \div 2)
    /\ screen_height = resolution_height
    /\ ai_state = "patrol"
    /\ current_target = None
    /\ boss_engaged = FALSE
    /\ active_powerup = "none"
    /\ powerup_stacks = 0
    /\ invulnerable = FALSE
    /\ invulnerability_start_time = 0
    /\ invulnerability_duration = 0
    /\ clock = 0

\* nothing returned yet
NoResult ==
    /\ last_op = "init"
    /\ selected = Result("none", None)
    /\ vertical_velocity = 0
    /\ old_y = rect_y
    /\ predicted = NoPosition
    /\ predict_path = "none"

\* no call made yet
NoCall ==
    /\ NoResult
    /\ aliens = <<>>
    /\ boss = None
    /\ powerups = <<>>
    /\ boss_bullets = <<>>
    /\ predict_args = NoArgs

\* select_target keeping the target the controller already has
SelectTarget_Sticky(strat, ship, in_aliens, in_boss, in_powerups, in_boss_bullets) ==
    IF current_target # None THEN Result("target_alien", current_target)
    ELSE IF strat = "Enhanced"
    THEN EnhancedSelectTarget(ship, in_aliens, in_boss, in_powerups, in_boss_bullets)
    ELSE AggressiveSelectTarget(ship, in_aliens, in_boss, in_powerups, in_boss_bullets)

\* self.strategy.select_target: the method of the strategy object in use
SelectTarget(strat, ship, in_aliens, in_boss, in_powerups, in_boss_bullets) ==
    IF strat = "Enhanced"
    THEN EnhancedSelectTarget(ship, in_aliens, in_boss, in_powerups, in_boss_bullets)
    ELSE AggressiveSelectTarget(ship, in_aliens, in_boss, in_powerups, in_boss_bullets)

\* hasattr(self.si_game, 'activate_ship_powerup'): SpaceImpact defines no such method
HasActivateShipPowerup == FALSE

\* Ship.update_ai(aliens, boss_bullets, boss, powerups).  The locals of the
\* method are bound once each, in the order the method computes them.
UpdateAi(in_aliens, in_boss_bullets, in_boss, in_powerups) ==
    \E ship \in {ShipRect(rect_y)} :
    \E sel \in {SelectTarget(strategy, ship, in_aliens, in_boss, in_powerups, in_boss_bullets)} :
    \E new_state \in {NewState(sel.action, in_boss)} :
    \E target \in {NewTarget(sel.action, sel.target, in_boss)} :
    \E use_powerup \in {/\ new_state = "engage_boss"
                        /\ active_powerup # "none"
                        /\ powerup_stacks > 0
                        /\ HasActivateShipPowerup} :
    \E velocity \in {VerticalVelocity(new_state, target, ship, screen_height)} :
       /\ invulnerable' = IF invulnerable /\ clock - invulnerability_start_time >= invulnerability_duration
                          THEN FALSE ELSE invulnerable
       /\ ai_state' = new_state
       /\ current_target' = target
       /\ boss_engaged' = IF new_state = "engage_boss" THEN TRUE ELSE boss_engaged
       /\ powerup_stacks' = IF use_powerup THEN powerup_stacks - 1 ELSE powerup_stacks
       /\ active_powerup' = IF use_powerup /\ powerup_stacks - 1 <= 0 THEN "none" ELSE active_powerup
       /\ rect_y' = ApplyVelocity(rect_y, velocity,
                                  FloatDeficit(new_state, target, ship, rect_y), screen_height)
       /\ last_op' = "update_ai"
       /\ aliens' = in_aliens
       /\ boss' = in_boss
       /\ powerups' = in_powerups
       /\ boss_bullets' = in_boss_bullets
       /\ selected' = sel
       /\ vertical_velocity' = velocity
       /\ old_y' = rect_y
       /\ UNCHANGED <<screen_height, strategy, invulnerability_start_time,
                      invulnerability_duration, clock, predictVars, gameVars>>

(* ---------------- inputs of a tick ---------------- *)

\* window heights the resizable window takes
ScreenHeights == {resolution_height, 480}

\* Sequences of at most n elements of S, n <= 3
SeqUpTo(S, n) ==
    {<<>>} \cup (IF n >= 1 THEN {<<a>> : a \in S} ELSE {})
           \cup (IF n >= 2 THEN {<<a, b>> : a \in S, b \in S} ELSE {})
           \cup (IF n >= 3 THEN {<<a, b, c>> : a \in S, b \in S, c \in S} ELSE {})

World(in_aliens, in_boss_bullets, in_boss, in_powerups) ==
    [aliens |-> in_aliens, boss_bullets |-> in_boss_bullets,
     boss |-> in_boss, powerups |-> in_powerups]

\* The snapshots handed to update_ai, placed around the ship: projectiles
\* dead ahead, off the ship's line and beyond the threat threshold; enemies
\* dangerously close, far ahead and level with the ship; powerups in easy
\* reach, level with the ship and far away; a boss as class Boss builds it
\* (no is_boss attribute, no velocity), a flagged moving boss level with the
\* ship, and a boss outside the sensor range.
TickWorlds(ship) ==
    LET ahead == BossBullet(ship.cx + 50, ship.cy, NoVelocity)
        above == BossBullet(ship.cx + 60, ship.cy - 40, NoVelocity)
        below == BossBullet(ship.cx + 60, ship.cy + 40, NoVelocity)
        distant == BossBullet(ship.cx + 200, ship.cy + 40, NoVelocity)
        close_alien == Alien(200, ship.cy + 35)
        far_alien == Alien(600, 500)
        level_alien == Alien(600, ship.cy + 10)
        near_powerup == Powerup("green", 150, ship.cy + 40)
        level_powerup == Powerup("orange", 900, ship.cy - 8)
        far_powerup == Powerup("red", 900, 200)
        the_boss == Boss(1000, 100, 60, 60, NoVelocity, FALSE)
        level_boss == Boss(1000, ship.cy + 4, 60, 60, <<0, 3>>, TRUE)
        remote_boss == Boss(1700, 324, 60, 60, NoVelocity, FALSE)
    IN { World(<<>>, <<>>, None, <<>>),
         World(<<>>, <<ahead>>, None, <<>>),
         World(<<>>, <<ahead>>, the_boss, <<>>),
         World(<<far_alien>>, <<ahead>>, None, <<>>),
         World(<<>>, <<above>>, None, <<>>),
         World(<<>>, <<below>>, the_boss, <<>>),
         World(<<>>, <<distant>>, the_boss, <<>>),
         World(<<close_alien>>, <<>>, None, <<>>),
         World(<<far_alien>>, <<>>, None, <<>>),
         World(<<level_alien>>, <<>>, None, <<>>),
         World(<<>>, <<>>, None, <<near_powerup>>),
         World(<<>>, <<>>, None, <<level_powerup>>),
         World(<<far_alien>>, <<>>, None, <<far_powerup>>),
         World(<<>>, <<>>, the_boss, <<>>),
         World(<<>>, <<>>, level_boss, <<>>),
         World(<<>>, <<>>, the_boss, <<near_powerup>>),
         World(<<>>, <<>>, remote_boss, <<>>) }

(* ---------------- the game's controller ---------------- *)

Init ==
    /\ ShipInit
    /\ strategy = "Enhanced"
    /\ GameRunning
    /\ NoCall

\* one frame of the game loop calling ship.update_ai
Tick ==
    \E w \in TickWorlds(ShipRect(rect_y)) :
        UpdateAi(w.aliens, w.boss_bullets, w.boss, w.powerups)

\* the user resizes the window: screen.get_size() changes
Resize ==
    /\ \E h \in ScreenHeights \ {screen_height} : screen_height' = h
    /\ last_op' = "resize"
    /\ UNCHANGED <<shipVars, strategy, clock, callVars, predictVars, gameVars>>

Next == Tick \/ Resize

Spec == Init /\ [][Next]_vars

(* ---------------- select_target on its own ---------------- *)

\* Ship positions the selector is called at
SelectShipYs == {0, ShipStartCenterY - (ShipHeight \div 2), 500}

\* Projectiles: dead ahead; in the zone at 140 units, without velocity; in
\* the zone at 200 units, flying at the ship with a vertical drift; in the
\* zone at 200 units, flying at the ship horizontally; outside the vertical
\* range.
SelectBullets(ship) ==
    { BossBullet(ship.cx + 50, ship.cy, NoVelocity),
      BossBullet(ship.cx + 140, ship.cy + 10, NoVelocity),
      BossBullet(ship.cx + 200, ship.cy, <<-14, 1>>),
      BossBullet(ship.cx + 200, ship.cy + 5, <<-14, 0>>),
      BossBullet(ship.cx + 50, ship.cy - 170, NoVelocity) }

\* Enemies: dangerously close ahead, far ahead, level with the ship with its
\* left edge behind the ship's right edge, and behind the ship at the left
\* border of the screen.
SelectAliens(ship) ==
    { Alien(200, ship.cy + 35),
      Alien(600, 500),
      Alien(60, ship.cy + 10),
      Alien(0, 300) }

\* Powerups: offensive and in easy reach, not offensive and in easy reach,
\* offensive and far away, offensive and close behind the ship but 65 units
\* off its row.
SelectPowerups(ship) ==
    { Powerup("green", ship.cx + 70, ship.cy + 40),
      Powerup("red", ship.cx + 60, ship.cy + 20),
      Powerup("orange", 900, 200),
      Powerup("orange", ship.cx - 30, ship.cy + 65) }

SelectBosses ==
    { None,
      Boss(1000, 100, 60, 60, NoVelocity, FALSE),
      Boss(1700, 324, 60, 60, NoVelocity, FALSE) }

\* A ship at some height, about to call select_target of either strategy on
\* a snapshot
SelectInit ==
    /\ screen_height = resolution_height
    /\ ai_state = "patrol"
    /\ current_target = None
    /\ boss_engaged = FALSE
    /\ active_powerup = "none"
    /\ powerup_stacks = 0
    /\ invulnerable = FALSE
    /\ invulnerability_start_time = 0
    /\ invulnerability_duration = 0
    /\ clock = 0
    /\ strategy \in {"Aggressive", "Enhanced"}
    /\ \E y \in SelectShipYs :
         /\ rect_y = y
         /\ aliens \in SeqUpTo(SelectAliens(ShipRect(y)), MaxAliens)
         /\ boss_bullets \in SeqUpTo(SelectBullets(ShipRect(y)), MaxBullets)
         /\ powerups \in SeqUpTo(SelectPowerups(ShipRect(y)), MaxPowerups)
    /\ boss \in SelectBosses
    /\ predict_args = NoArgs
    /\ GameRunning
    /\ NoResult

\* strategy.select_target(ship, aliens, boss, powerups, boss_bullets)
CallSelectTarget ==
    /\ last_op = "init"
    /\ selected' = SelectTarget(strategy, ShipRect(rect_y), aliens, boss, powerups, boss_bullets)
    /\ last_op' = "select_target"
    /\ UNCHANGED <<shipVars, screen_height, strategy, clock, aliens, boss, powerups,
                   boss_bullets, vertical_velocity, old_y, predictVars, gameVars>>

SelectSpec == SelectInit /\ [][CallSelectTarget]_vars

(* ---------------- select_target at the edge of the detection range ---------------- *)

\* Ship rows for the range snapshots
RangeShipYs == {268, 400}

\* Enemies level with the ship at exactly 1500 units, at 1501 units, and
\* near.
RangeAliens(ship) ==
    { Alien(ship.cx + detection_range, ship.cy),
      Alien(ship.cx + detection_range + 1, ship.cy),
      Alien(600, 500) }

\* Powerups at exactly 1500 units and at 1501 units
RangePowerups(ship) ==
    { Powerup("green", ship.cx + detection_range, ship.cy),
      Powerup("red", ship.cx + detection_range + 1, ship.cy) }

\* Projectiles at 1501 units
RangeBullets(ship) ==
    { BossBullet(ship.cx + detection_range + 1, ship.cy, NoVelocity) }

\* No boss, a boss at exactly 1500 units, a boss at 1501 units
RangeBosses(ship) ==
    { None,
      Boss(ship.cx + detection_range, ship.cy, 60, 60, NoVelocity, FALSE),
      Boss(ship.cx + detection_range + 1, ship.cy, 60, 60, NoVelocity, FALSE) }

RangeInit ==
    /\ screen_height = resolution_height
    /\ ai_state = "patrol"
    /\ current_target = None
    /\ boss_engaged = FALSE
    /\ active_powerup = "none"
    /\ powerup_stacks = 0
    /\ invulnerable = FALSE
    /\ invulnerability_start_time = 0
    /\ invulnerability_duration = 0
    /\ clock = 0
    /\ strategy \in {"Aggressive", "Enhanced"}
    /\ \E y \in RangeShipYs :
         /\ rect_y = y
         /\ aliens \in SeqUpTo(RangeAliens(ShipRect(y)), MaxAliens)
         /\ boss_bullets \in SeqUpTo(RangeBullets(ShipRect(y)), 1)
         /\ powerups \in SeqUpTo(RangePowerups(ShipRect(y)), MaxPowerups)
         /\ boss \in RangeBosses(ShipRect(y))
    /\ predict_args = NoArgs
    /\ GameRunning
    /\ NoResult

RangeSpec == RangeInit /\ [][CallSelectTarget]_vars

(* ---------------- predict_target_position on its own ---------------- *)

PlainTargets ==
    { Boss(cx, 100 + 200 * k, 60, 60, v, b) :
        cx \in {300, 1000}, k \in {0, 2}, v \in {NoVelocity, <<0, 0>>, <<0, 3>>, <<-2, -3>>},
        b \in BOOLEAN }

\* the targets, and each of them with a pattern attribute
PredictTargets ==
    PlainTargets \cup { t @@ [pattern |-> p] : t \in PlainTargets, p \in {"zigzag", "circle"} }

\* projectile speeds, in thousandths: negative, zero, settings.bullet_speed
PredictSpeeds == {-5000, 0, BulletSpeedMilli}

PredictInit ==
    /\ ShipInit
    /\ strategy \in {"Aggressive", "Enhanced"}
    /\ aliens = <<>>
    /\ boss = None
    /\ powerups = <<>>
    /\ boss_bullets = <<>>
    /\ GameRunning
    /\ NoResult
    /\ predict_args \in [target : PredictTargets, projectile_speed : PredictSpeeds,
                         ship : {NoShooter, ShipRect(rect_y)}]

\* strategy.predict_target_position(target, projectile_speed, ship)
CallPredict ==
    /\ last_op = "init"
    /\ predict_path' = PredictPath(predict_args.target)
    /\ predicted' = IF predict_path' = "raised" THEN predicted
                    ELSE PredictTargetPosition(predict_args.target,
                                               predict_args.projectile_speed,
                                               predict_args.ship)
    /\ last_op' = "predict"
    /\ UNCHANGED <<shipVars, screen_height, strategy, clock, callVars, predict_args, gameVars>>

PredictSpec == PredictInit /\ [][CallPredict]_vars

(* ---------------- patrol: ticks in an empty world ---------------- *)

\* The ship wherever on the screen earlier ticks have left it, the window
\* at any of its heights, the controller as constructed
PatrolInit ==
    /\ rect_y \in 0..(resolution_height - ShipHeight)
    /\ screen_height \in ScreenHeights
    /\ ai_state = "patrol"
    /\ current_target = None
    /\ boss_engaged = FALSE
    /\ active_powerup = "none"
    /\ powerup_stacks = 0
    /\ invulnerable = FALSE
    /\ invulnerability_start_time = 0
    /\ invulnerability_duration = 0
    /\ clock = 0
    /\ strategy = "Enhanced"
    /\ GameRunning
    /\ NoCall

\* update_ai with no enemies, no projectiles, no boss and no powerups
PatrolTick == UpdateAi(<<>>, <<>>, None, <<>>)

\* the game loop keeps calling update_ai while the game is active
PatrolSpec == PatrolInit /\ [][PatrolTick]_vars /\ WF_vars(PatrolTick)

(* ---------------- the game around the ship ---------------- *)

\* pygame.time.get_ticks() advances by this much between two looks at it,
\* up to MaxClock
ClockStep == 1500
MaxClock == 12000

\* stacks handed to Ship.set_powerup (3 by default)
PowerupStacks == {1, 3}

\* invulnerability after a respawn, in milliseconds
RespawnInvulnerability == 3000

\* center_ship without the call of activate_invulnerability
CenterShip_NoInvulnerability ==
    /\ rect_y' = ShipStartCenterY - (ShipHeight \div 2)
    /\ UNCHANGED <<invulnerable, invulnerability_start_time, invulnerability_duration>>

\* Ship.center_ship: the rect is centred on the settings' resolution and
\* activate_invulnerability(3000) re-arms the invulnerability
CenterShip ==
    /\ rect_y' = ShipStartCenterY - (ShipHeight \div 2)
    /\ invulnerable' = TRUE
    /\ invulnerability_start_time' = clock
    /\ invulnerability_duration' = RespawnInvulnerability

\* reset_game with a reset_stats that keeps the powerups collected
ResetGame_KeepsPowerups ==
    /\ ships_left' = ships_limit
    /\ UNCHANGED <<green_powerups, orange_powerups, yellow_powerups>>
    /\ si_boss_bullets' = <<>>
    /\ si_boss_active' = FALSE
    /\ si_boss' = None
    /\ last_boss_death_time' = clock
    /\ CenterShip

\* SpaceImpact.reset_game, as far as the ship and the lives go
ResetGame ==
    /\ ships_left' = ships_limit
    /\ green_powerups' = 0
    /\ orange_powerups' = 0
    /\ yellow_powerups' = 0
    /\ si_boss_bullets' = <<>>
    /\ si_boss_active' = FALSE
    /\ si_boss' = None
    /\ last_boss_death_time' = clock
    /\ CenterShip

\* SpaceImpact._check_play_button on a click on the Play button
CheckPlayButton ==
    /\ ~game_active
    /\ ResetGame
    /\ game_active' = TRUE
    /\ last_op' = "play"
    /\ UNCHANGED <<ai_state, current_target, boss_engaged, active_powerup, powerup_stacks,
                   screen_height, strategy, clock, callVars, predictVars, last_shot,
                   last_spawn_time>>

\* SpaceImpact._ship_hit, called by the collision checks of a frame.  With a
\* life left, boss_active has been cleared before it is tested, so the test
\* always takes its else branch.
ShipHit ==
    /\ game_active
    /\ ~invulnerable
    /\ IF ships_left > 0
       THEN LET boss_active == FALSE
            IN /\ ships_left' = ships_left - 1
               /\ si_boss_bullets' = <<>>
               /\ si_boss_active' = boss_active
               /\ si_boss' = IF si_boss_active THEN None ELSE si_boss
               /\ CenterShip
               /\ ai_state' = IF boss_active THEN "engage_boss" ELSE "engage_enemy"
               /\ boss_engaged' = boss_active
               /\ UNCHANGED <<current_target, game_active, green_powerups,
                              orange_powerups, yellow_powerups, last_boss_death_time>>
       ELSE /\ ResetGame
            /\ game_active' = FALSE
            /\ UNCHANGED <<ai_state, current_target, boss_engaged>>
    /\ last_op' = "ship_hit"
    /\ UNCHANGED <<active_powerup, powerup_stacks, screen_height, strategy, clock,
                   callVars, predictVars, last_shot, last_spawn_time>>

\* Ship.set_powerup(powerup_type, stacks)
SetPowerup ==
    /\ \E type \in {"green", "orange"}, stacks \in PowerupStacks :
          /\ active_powerup' = type
          /\ powerup_stacks' = stacks
    /\ last_op' = "set_powerup"
    /\ UNCHANGED <<rect_y, ai_state, current_target, boss_engaged, invulnerable,
                   invulnerability_start_time, invulnerability_duration,
                   screen_height, strategy, clock, callVars, predictVars, gameVars>>

\* time passes; the clock is followed until the invulnerability in force
\* has run out
AdvanceClock ==
    /\ clock < MaxClock
    /\ clock - invulnerability_start_time < invulnerability_duration
    /\ clock' = clock + ClockStep
    /\ UNCHANGED <<shipVars, screen_height, strategy, last_op, callVars, predictVars, gameVars>>

\* The snapshots run_game hands to update_ai: boss_bullets is None, here
\* empty, unless a boss is active.  An enemy far ahead, a powerup level with
\* the ship's starting row, a boss, and a boss with a projectile in front of
\* the ship.
GameWorlds ==
    LET incoming == BossBullet(ShipCenterX + 50, 360, NoVelocity)
        far_alien == Alien(600, 340)
        near_powerup == Powerup("green", 150, 330)
        the_boss == Boss(1000, 300, 60, 60, NoVelocity, FALSE)
    IN { World(<<>>, <<>>, None, <<>>),
         World(<<far_alien>>, <<>>, None, <<>>),
         World(<<>>, <<>>, None, <<near_powerup>>),
         World(<<>>, <<>>, the_boss, <<>>),
         World(<<>>, <<incoming>>, the_boss, <<>>) }

\* the game as SpaceImpact.__init__ leaves it: not started
GameInit ==
    /\ ShipInit
    /\ strategy = "Enhanced"
    /\ ships_left = ships_limit
    /\ game_active = FALSE
    /\ NoBossFight
    /\ NoCall

\* one frame of run_game with the game active
GameTick ==
    /\ game_active
    /\ \E w \in GameWorlds :
          UpdateAi(w.aliens, w.boss_bullets, w.boss, w.powerups)

GameNext == CheckPlayButton \/ GameTick \/ ShipHit \/ SetPowerup \/ AdvanceClock

GameSpec == GameInit /\ [][GameNext]_vars

(* ---------------- the frames of run_game ---------------- *)

\* the largest value the model lets a powerup counter take
MaxCount == 1

\* duration of the invulnerability a yellow powerup gives
PowerupInvulnerability == 5000

\* settings.alien_speed = screen_width * 0.003 * 1.5 = 5.184, in thousandths
AlienSpeedMilli == 5184

\* SpaceImpact.boss_respawn_delay and Boss.attack_cooldown, in milliseconds
boss_respawn_delay == 120000
attack_cooldown == 5000

\* Boss.load_images scales an enemy sprite 20 times: a sprite of 11 by 11
\* pixels gives a boss of 220 by 220
BossSize == 220

\* screen_width * 0.75, in thousandths
CombatPositionMilli == 864000

\* The Boss object: its rect (centre and size) as the strategies read it,
\* and the fields Boss.update works on; x and y are the float position of
\* rect.x and rect.y in thousandths, and assigning them to the rect
\* truncates them.
BossSprite(x, y, moving_down, phase, health, last_attack_time) ==
    [kind |-> "boss",
     cx |-> (x \div 1000) + (BossSize \div 2),
     cy |-> (y \div 1000) + (BossSize \div 2),
     w |-> BossSize, h |-> BossSize,
     type |-> "none", velocity |-> NoVelocity, is_boss |-> FALSE,
     x |-> x, y |-> y, moving_down |-> moving_down, phase |-> phase,
     health |-> health, last_attack_time |-> last_attack_time]

\* Boss.__init__: rect.right = screen_width - 50, rect.centery =
\* screen_height // 2, moving down, in the approach phase, health 200, and
\* last_attack_time = pygame.time.get_ticks()
SpawnedBoss(current_time) ==
    BossSprite(1000 * (resolution_width - 50 - BossSize),
               1000 * ((resolution_height \div 2) - (BossSize \div 2)),
               TRUE, "approach", 200, current_time)

\* the most projectiles the model lets the boss_bullets group hold
MaxGroup == 1

\* the types of the powerups collected
CollectedTypes == {"green", "orange", "yellow", "red"}

\* the most lives the model lets the red powerups add up to
MaxShips == 3

\* Aliens of the fleet that fire while passing closely in front of the
\* ship, level with its starting row: one ahead of the ship, one whose
\* projectile appears inside the ship's rect
FleetAliens == { Alien(273, 324), Alien(200, 324) }

\* BossBullet.__init__: rect.midleft = shooter.rect.midleft; no velocity
\* attribute
FiredBullet(shooter) ==
    BossBullet(RectLeft(shooter) + (BulletWidth \div 2), shooter.cy, NoVelocity)

\* self.aliens and self.powerups as a frame finds them
FrameWorlds ==
    { World(<<>>, <<>>, None, <<>>),
      World(<<Alien(600, 334)>>, <<>>, None, <<>>) }

\* pygame.sprite.collide_rect of the ship (rect.x = 0) with a sprite
CollideRect(y, e) ==
    /\ RectLeft(e) < ShipWidth
    /\ RectLeft(e) + e.w > 0
    /\ e.cy - (e.h \div 2) < y + ShipHeight
    /\ e.cy - (e.h \div 2) + e.h > y

\* between the update_ai of a frame and the auto-fire that ends it
InFrame == last_op \in {"update_ai", "alien_fires", "powerup", "boss_destroyed", "ship_hit"}

\* run_game, line 93: no boss is active and the respawn delay has passed
\* since last_boss_death_time
SpawnDue ==
    /\ ~si_boss_active
    /\ clock - last_boss_death_time >= boss_respawn_delay

\* run_game, lines 93-94: _spawn_boss when the respawn delay has passed; the
\* update_ai of the same frame follows
SpawnBoss ==
    /\ game_active
    /\ SpawnDue
    /\ si_boss_active' = TRUE
    /\ si_boss' = SpawnedBoss(clock)
    /\ last_spawn_time' = clock
    /\ last_op' = "spawn_boss"
    /\ UNCHANGED <<shipVars, screen_height, strategy, clock, callVars, predictVars,
                   ships_left, game_active, si_boss_bullets, green_powerups,
                   orange_powerups, yellow_powerups, last_shot, last_boss_death_time>>

\* the latest value of the clock at which the model lets a respawn delay end
MaxSpawnClock == 120000

\* time passes with no boss in play until the respawn delay has elapsed
AwaitBoss ==
    /\ game_active
    /\ ~si_boss_active
    /\ clock - last_boss_death_time < boss_respawn_delay
    /\ last_boss_death_time + boss_respawn_delay <= MaxSpawnClock
    /\ clock' = last_boss_death_time + boss_respawn_delay
    /\ UNCHANGED <<shipVars, screen_height, strategy, last_op, callVars, predictVars, gameVars>>

\* run_game, lines 104-109: update_ai is handed the boss_bullets group and
\* the boss only while boss_active, None otherwise
FrameTick ==
    /\ game_active
    /\ \E w \in FrameWorlds :
          UpdateAi(w.aliens,
                   IF si_boss_active THEN si_boss_bullets ELSE <<>>,
                   IF si_boss_active THEN si_boss ELSE None,
                   w.powerups)

\* Alien.update, lines 61-64: with a chance of 1% an alien adds a BossBullet
\* to the boss_bullets group
AlienFires ==
    /\ InFrame
    /\ Len(si_boss_bullets) < MaxGroup
    /\ \E alien \in FleetAliens :
          si_boss_bullets' = Append(si_boss_bullets, FiredBullet(alien))
    /\ last_op' = "alien_fires"
    /\ UNCHANGED <<shipVars, screen_height, strategy, clock, callVars, predictVars,
                   ships_left, game_active, si_boss_active, si_boss, green_powerups,
                   orange_powerups, yellow_powerups, last_shot, last_boss_death_time,
                   last_spawn_time>>

\* _apply_powerup_effect, called by _update_powerups for a powerup the ship
\* or one of its bullets has touched
PowerupCollected ==
    /\ InFrame
    /\ \E type \in CollectedTypes :
          /\ type = "red" => ships_left < MaxShips
          /\ type = "green" => green_powerups < MaxCount
          /\ type = "orange" => orange_powerups < MaxCount
          /\ type = "yellow" => yellow_powerups < MaxCount
          /\ ships_left' = IF type = "red" THEN ships_left + 1 ELSE ships_left
          /\ green_powerups' = IF type = "green" THEN green_powerups + 1 ELSE green_powerups
          /\ orange_powerups' = IF type = "orange" THEN orange_powerups + 1 ELSE orange_powerups
          /\ yellow_powerups' = IF type = "yellow" THEN yellow_powerups + 1 ELSE yellow_powerups
    /\ last_op' = "powerup"
    /\ UNCHANGED <<shipVars, screen_height, strategy, clock, callVars, predictVars,
                   game_active, si_boss_active, si_boss, si_boss_bullets, last_shot,
                   last_boss_death_time, last_spawn_time>>

\* _update_boss, lines 451-463: a hit takes the boss's last health
BossDestroyed ==
    /\ InFrame
    /\ si_boss_active
    /\ si_boss # None
    /\ si_boss_active' = FALSE
    /\ last_boss_death_time' = clock
    /\ si_boss' = None
    /\ last_op' = "boss_destroyed"
    /\ UNCHANGED <<shipVars, screen_height, strategy, clock, callVars, predictVars,
                   ships_left, game_active, si_boss_bullets, green_powerups,
                   orange_powerups, yellow_powerups, last_shot, last_spawn_time>>

\* _update_aliens and _update_boss_bullets: a collision with a vulnerable
\* ship calls _ship_hit
FrameShipHit == InFrame /\ ShipHit

\* _fire_bullet with the AI-controlled ship, called by the auto-fire at the
\* end of a frame
FireBullet ==
    /\ InFrame
    /\ \E engaging \in {ai_state \in {"engage_boss", "target_boss"}} :
       \E in_danger \in {\/ \E b \in Range(si_boss_bullets) : CollideRect(rect_y, b)
                          \/ \E a \in Range(aliens) : CollideRect(rect_y, a)} :
          IF green_powerups > 0 /\ engaging
          THEN /\ last_shot' = "laser"
               /\ green_powerups' = green_powerups - 1
               /\ UNCHANGED <<orange_powerups, yellow_powerups, invulnerable,
                              invulnerability_start_time, invulnerability_duration>>
          ELSE IF orange_powerups > 0 /\ engaging
          THEN /\ last_shot' = "spread"
               /\ orange_powerups' = orange_powerups - 1
               /\ UNCHANGED <<green_powerups, yellow_powerups, invulnerable,
                              invulnerability_start_time, invulnerability_duration>>
          ELSE IF yellow_powerups > 0 /\ ~invulnerable /\ in_danger
          THEN /\ last_shot' = "bullet"
               /\ yellow_powerups' = yellow_powerups - 1
               /\ invulnerable' = TRUE
               /\ invulnerability_start_time' = clock
               /\ invulnerability_duration' = PowerupInvulnerability
               /\ UNCHANGED <<green_powerups, orange_powerups>>
          ELSE /\ last_shot' = "bullet"
               /\ UNCHANGED <<green_powerups, orange_powerups, yellow_powerups, invulnerable,
                              invulnerability_start_time, invulnerability_duration>>
    /\ last_op' = "fire_bullet"
    /\ UNCHANGED <<rect_y, ai_state, current_target, boss_engaged, active_powerup,
                   powerup_stacks, screen_height, strategy, clock, callVars, predictVars,
                   ships_left, game_active, si_boss_active, si_boss, si_boss_bullets,
                   last_boss_death_time, last_spawn_time>>

FrameNext ==
    \/ CheckPlayButton
    \/ SpawnBoss
    \/ FrameTick
    \/ AlienFires
    \/ PowerupCollected
    \/ BossDestroyed
    \/ FrameShipHit
    \/ FireBullet
    \/ AdvanceClock
    \/ AwaitBoss

FrameSpec == GameInit /\ [][FrameNext]_vars

(* ---------------- the boss fight, frame by frame ---------------- *)

\* the most projectiles the model lets the boss_bullets group hold before
\* _update_boss_bullets trims it
MaxProjectiles == 11

\* how many projectiles the fleet fires in one aliens.update(): every alien
\* fires with a chance of 1%, an Alien3 twice
AlienShots == {0, 11}

\* an alien that fires far ahead of the ship, near the top of the screen
FiringAliens == { Alien(900, 120) }

\* the lowest row down to which the model follows the boss's sweep in the
\* combat phase
MaxBossY == 220

\* time between two looks at the clock during a boss fight, followed up to
\* MaxAttackClock
AttackStep == 2500
MaxAttackClock == 132500

\* a bullet of the ship: a LaserBullet, a SpreadBullet or a Bullet, with the
\* predicted_shot attribute _fire_bullet sets on laser and spread shots
ShipBullet(type, predicted_shot) == [type |-> type, predicted_shot |-> predicted_shot]

\* the bullets of the ship that touch the boss in one frame
BulletVolleys ==
    { <<>>,
      <<ShipBullet("laser", TRUE)>>,
      <<ShipBullet("laser", TRUE), ShipBullet("laser", TRUE), ShipBullet("bullet", FALSE)>> }

\* Boss.update up to the assignment of the rect: the approach to the combat
\* position, then the sweep between the top and the bottom of the screen.
\* The tests of rect.bottom and rect.top read the rect of the frame before.
MoveBoss(b) ==
    LET approach_x == b.x - AlienSpeedMilli
        arrived == b.phase = "approach" /\ approach_x <= CombatPositionMilli
        phase == IF arrived THEN "combat" ELSE b.phase
        x == IF b.phase # "approach" THEN b.x
             ELSE IF arrived THEN CombatPositionMilli ELSE approach_x
        rect_top == b.cy - (b.h \div 2)
        rect_bottom == rect_top + b.h
        y == IF phase # "combat" THEN b.y
             ELSE IF b.moving_down THEN b.y + (AlienSpeedMilli \div 2)
             ELSE b.y - (AlienSpeedMilli \div 2)
        moving_down == IF phase # "combat" THEN b.moving_down
                       ELSE IF b.moving_down
                            THEN ~(rect_bottom >= resolution_height - 10)
                            ELSE rect_top <= 10
    IN BossSprite(x, y, moving_down, phase, b.health, b.last_attack_time)

\* Boss.update, lines 141-145, without the test of the phase
AttackDue_AnyPhase(b, current_time) ==
    current_time - b.last_attack_time >= attack_cooldown

\* Boss.update, lines 141-145: an attack is due in the combat phase once the
\* cooldown has passed since last_attack_time
AttackDue(b, current_time) ==
    /\ b.phase = "combat"
    /\ current_time - b.last_attack_time >= attack_cooldown

\* _fire_boss_bullet: a BossBullet at the boss's midleft, in the combat
\* phase only
FireBossBullet(group, b) ==
    IF b.phase = "combat" THEN Append(group, FiredBullet(b)) ELSE group

\* _update_boss, lines 400-443: the damage of one bullet.  int(base *
\* multiplier), then int(damage * hit_multiplier) with hit_multiplier =
\* 1 + accuracy * 0.5 and accuracy = 1 - min(|boss_y - predicted_y| / 100, 0.5)
Damage(bullet, b, ship) ==
    LET base_damage == CASE bullet.type = "laser" -> 50
                         [] bullet.type = "spread" -> 25
                         [] OTHER -> 10
        multiplier == CASE bullet.type = "laser" /\ bullet.predicted_shot -> 1500
                        [] bullet.type = "spread" /\ bullet.predicted_shot -> 1300
                        [] OTHER -> 1000
        damage == (base_damage * multiplier) \div 1000
        predicted_y == PredictTargetPosition(b, BulletSpeedMilli, ship).y
        miss == Abs(1000 * b.cy - predicted_y) \div 100
        accuracy == 1000 - (IF miss < 500 THEN miss ELSE 500)
        hit_multiplier == 1000 + (accuracy \div 2)
    IN (damage * hit_multiplier) \div 1000

\* Boss.hit reporting the destruction only once the health is below -100
Destroyed_Late(health) == health < -100

\* Boss.hit, line 162: the boss is destroyed when its health is used up
Destroyed(health) == health <= 0

RECURSIVE HealthAfter(_, _)
\* Boss.hit for the bullets of a volley in turn; the loop is left at the
\* hit that destroys the boss
HealthAfter(health, damages) ==
    IF damages = <<>> \/ Destroyed(health) THEN health
    ELSE HealthAfter(health - Head(damages), Tail(damages))

\* where a frame of run_game begins: after the Play button, after a
\* _ship_hit, after _update_boss_bullets, or after _update_aliens when the
\* test of line 117 finds no boss
AtFrameStart ==
    \/ last_op \in {"play", "ship_hit", "update_boss_bullets"}
    \/ last_op \in {"update_aliens", "alien_destroyed"} /\ ~(si_boss_active /\ si_boss # None)

\* run_game, lines 93-94, at the beginning of a frame
FrameSpawnBoss == AtFrameStart /\ SpawnBoss

\* run_game, lines 104-109: update_ai, once the spawn test of the frame is
\* behind
FrameUpdateAi ==
    /\ \/ last_op = "spawn_boss"
       \/ AtFrameStart /\ ~SpawnDue
    /\ FrameTick

\* _update_aliens: aliens.update(), in which aliens fire, then the test of
\* a collision with the ship.  An invulnerable ship destroys the alien it
\* touches; otherwise _ship_hit is called.
UpdateAliens ==
    /\ game_active
    /\ last_op = "update_ai"
    /\ \E shots \in AlienShots, collision \in BOOLEAN :
          IF collision /\ ~invulnerable
          THEN ShipHit
          ELSE /\ Len(si_boss_bullets) + shots <= MaxProjectiles
               /\ \E alien \in FiringAliens :
                     si_boss_bullets' =
                         si_boss_bullets \o [i \in 1..shots |-> FiredBullet(alien)]
               /\ last_op' = IF collision THEN "alien_destroyed" ELSE "update_aliens"
               /\ UNCHANGED <<shipVars, screen_height, strategy, clock, callVars,
                              predictVars, ships_left, game_active, si_boss_active,
                              si_boss, green_powerups, orange_powerups, yellow_powerups,
                              last_shot, last_boss_death_time, last_spawn_time>>

\* _update_boss: Boss.update with its attack, then the bullets of the ship
\* that hit the boss; the boss whose health is used up is removed
UpdateBoss ==
    /\ game_active
    /\ last_op \in {"update_aliens", "alien_destroyed"}
    /\ si_boss_active
    /\ si_boss # None
    /\ si_boss.y < 1000 * MaxBossY
    /\ \E volley \in BulletVolleys :
       \E moved \in {MoveBoss(si_boss)} :
       \E attacks \in {AttackDue(moved, clock)} :
       \E health \in {HealthAfter(moved.health,
                                  [i \in DOMAIN volley |->
                                       Damage(volley[i], moved, ShipRect(rect_y))])} :
          /\ si_boss_bullets' = IF attacks THEN FireBossBullet(si_boss_bullets, moved)
                                ELSE si_boss_bullets
          /\ IF Destroyed(health)
             THEN /\ si_boss_active' = FALSE
                  /\ last_boss_death_time' = clock
                  /\ si_boss' = None
             ELSE /\ si_boss' = [moved EXCEPT !.health = health,
                                              !.last_attack_time =
                                                  IF attacks THEN clock ELSE @]
                  /\ UNCHANGED <<si_boss_active, last_boss_death_time>>
    /\ last_op' = "update_boss"
    /\ UNCHANGED <<shipVars, screen_height, strategy, clock, callVars, predictVars,
                   ships_left, game_active, green_powerups, orange_powerups,
                   yellow_powerups, last_shot, last_spawn_time>>

\* _update_boss_bullets, lines 494-499: the oldest sprites beyond 10 are removed
NewestTen(group) ==
    IF Len(group) > 10 THEN SubSeq(group, Len(group) - 9, Len(group)) ELSE group

\* _update_boss_bullets, called in the frames that began with a boss: some
\* projectiles are shot down or leave the screen, one may touch the ship (it
\* is destroyed by an invulnerable ship, and calls _ship_hit otherwise), and
\* the group is trimmed to 10.  The flight of the projectiles is not followed.
UpdateBossBullets ==
    /\ game_active
    /\ last_op = "update_boss"
    /\ \E gone \in {0, Len(si_boss_bullets)}, collision \in BOOLEAN :
       \E left \in {SubSeq(si_boss_bullets, gone + 1, Len(si_boss_bullets))} :
          IF collision /\ left # <<>> /\ ~invulnerable
          THEN ShipHit
          ELSE /\ si_boss_bullets' =
                      NewestTen(IF collision /\ left # <<>> THEN Tail(left) ELSE left)
               /\ last_op' = "update_boss_bullets"
               /\ UNCHANGED <<shipVars, screen_height, strategy, clock, callVars,
                              predictVars, ships_left, game_active, si_boss_active,
                              si_boss, green_powerups, orange_powerups, yellow_powerups,
                              last_shot, last_boss_death_time, last_spawn_time>>

\* time passes during a boss fight, up to the moment the next attack is due
AwaitAttack ==
    /\ game_active
    /\ si_boss_active
    /\ si_boss # None
    /\ clock < MaxAttackClock
    /\ clock - si_boss.last_attack_time < attack_cooldown
    /\ clock' = clock + AttackStep
    /\ UNCHANGED <<shipVars, screen_height, strategy, last_op, callVars, predictVars, gameVars>>

BossNext ==
    \/ CheckPlayButton
    \/ AdvanceClock
    \/ AwaitBoss
    \/ FrameSpawnBoss
    \/ FrameUpdateAi
    \/ UpdateAliens
    \/ UpdateBoss
    \/ UpdateBossBullets
    \/ AwaitAttack

BossSpec == GameInit /\ [][BossNext]_vars

(* ---------------- respawns and the invulnerability timer ---------------- *)

\* The snapshots of the frames around a respawn: nothing on the screen, one
\* enemy far ahead, or one enemy below the ship's row
RespawnWorlds ==
    { World(<<>>, <<>>, None, <<>>),
      World(<<Alien(600, 340)>>, <<>>, None, <<>>),
      World(<<Alien(600, 420)>>, <<>>, None, <<>>) }

\* one frame of run_game with the game active
RespawnTick ==
    /\ game_active
    /\ \E w \in RespawnWorlds :
          UpdateAi(w.aliens, w.boss_bullets, w.boss, w.powerups)

RespawnNext == CheckPlayButton \/ RespawnTick \/ ShipHit \/ AdvanceClock

\* run_game calls update_ai in every frame of an active game, and
\* pygame.time.get_ticks() keeps growing
RespawnSpec ==
    GameInit /\ [][RespawnNext]_vars /\ WF_vars(RespawnTick) /\ WF_vars(AdvanceClock)

(* ---------------- one tick from a chosen position ---------------- *)

\* rect.y of the ship when the tick begins; 244 puts its centre at y = 300
ScenarioYs == {0, 44, 244, 268, 400, 536}

\* the snapshots of a frame and a boss flagged is_boss at y = 100, at rest
\* and moving
ScenarioWorlds(ship) ==
    TickWorlds(ship) \cup
        { World(<<>>, <<>>, Boss(1000, 100, 60, 60, NoVelocity, TRUE), <<>>),
          World(<<>>, <<>>, Boss(1000, 100, 60, 60, <<0, 3>>, TRUE), <<>>) }

\* a ship inside the window, about to run update_ai on a snapshot
ScenarioInit ==
    /\ screen_height \in ScreenHeights
    /\ rect_y \in {y \in ScenarioYs : y + ShipHeight <= screen_height}
    /\ ai_state = "patrol"
    /\ current_target = None
    /\ boss_engaged = FALSE
    /\ active_powerup = "none"
    /\ powerup_stacks = 0
    /\ invulnerable = FALSE
    /\ invulnerability_start_time = 0
    /\ invulnerability_duration = 0
    /\ clock = 0
    /\ strategy = "Enhanced"
    /\ GameRunning
    /\ \E w \in ScenarioWorlds(ShipRect(rect_y)) :
          /\ aliens = w.aliens
          /\ boss_bullets = w.boss_bullets
          /\ boss = w.boss
          /\ powerups = w.powerups
    /\ predict_args = NoArgs
    /\ NoResult

\* ship.update_ai on the snapshot
ScenarioTick ==
    /\ last_op = "init"
    /\ UpdateAi(aliens, boss_bullets, boss, powerups)

ScenarioSpec == ScenarioInit /\ [][ScenarioTick]_vars

(* ---------------- select_target under every carried state ---------------- *)

\* What the controller carries from earlier ticks: ai_state with the target
\* kept for it (after a ship hit, engage_enemy with no target)
CarriedStates(ship) ==
    { <<"patrol", None>>,
      <<"dodge", BossBullet(ship.cx + 50, ship.cy, NoVelocity)>>,
      <<"engage_boss", Boss(1000, 100, 60, 60, NoVelocity, FALSE)>>,
      <<"collect_powerup", Powerup("green", 150, ship.cy + 40)>>,
      <<"engage_enemy", Alien(600, 500)>>,
      <<"engage_enemy", None>> }

\* A ship in any carried state about to call select_target on a snapshot
PureInit ==
    /\ screen_height = resolution_height
    /\ clock = 0
    /\ strategy \in {"Aggressive", "Enhanced"}
    /\ \E y \in SelectShipYs :
         /\ rect_y = y
         /\ \E c \in CarriedStates(ShipRect(y)) :
               /\ ai_state = c[1]
               /\ current_target = c[2]
               /\ boss_engaged \in (IF c[1] = "engage_boss" THEN {TRUE} ELSE BOOLEAN)
         /\ \E w \in TickWorlds(ShipRect(y)) :
               /\ aliens = w.aliens
               /\ boss_bullets = w.boss_bullets
               /\ boss = w.boss
               /\ powerups = w.powerups
    /\ invulnerable \in BOOLEAN
    /\ invulnerability_start_time = 0
    /\ invulnerability_duration = (IF invulnerable THEN RespawnInvulnerability ELSE 0)
    /\ \E s \in {0} \cup PowerupStacks :
         /\ powerup_stacks = s
         /\ active_powerup \in (IF s = 0 THEN {"none"} ELSE {"green", "orange"})
    /\ predict_args = NoArgs
    /\ GameRunning
    /\ NoResult

PureSpec == PureInit /\ [][CallSelectTarget]_vars

(* ======================= properties ======================= *)

\* the ship as the last call saw it
CallShip == ShipRect(IF last_op = "update_ai" THEN old_y ELSE rect_y)

\* the projectiles of the last call that pass the zone checks
ZoneBullets == {b \in Range(boss_bullets) : InBulletZone(CallShip, b)}

\* the zone projectiles of lowest danger score
MostDangerous ==
    {b \in ZoneBullets :
        \A c \in ZoneBullets : DangerScore(CallShip, b) <= DangerScore(CallShip, c)}

\* C1 as stated: with a boss present and a projectile passing the zone
\* checks, select_target of either strategy returns 'dodge'.
C1_DodgeWheneverInZone ==
    (last_op = "select_target" /\ boss # None /\ ZoneBullets # {})
        => selected.action = "dodge"

\* C1, amended: with a boss present and a projectile passing the zone checks,
\* AggressiveStrategy returns 'dodge'; EnhancedAIStrategy returns 'dodge' when
\* moreover the zone projectiles of lowest danger score are less than 150
\* units from the ship.
C1_DodgeBeforeBoss ==
    (/\ last_op = "select_target"
     /\ boss # None
     /\ ZoneBullets # {}
     /\ strategy = "Enhanced" =>
            \A b \in MostDangerous : Distance2(CallShip, b) < threat_threshold * threat_threshold)
        => selected.action = "dodge"

\* the enhanced strategy dodges with a boss and two zone projectiles present
C1_Witness ==
    /\ last_op = "select_target"
    /\ strategy = "Enhanced"
    /\ boss # None
    /\ Cardinality(ZoneBullets) = 2
    /\ selected.action = "dodge"

\* no projectile in the zone and no enemy passing the dangerous-enemy checks
NoDodgeWorthyThreat ==
    /\ ZoneBullets = {}
    /\ \A a \in Range(aliens) : ~IsDangerousEnemy(CallShip, a)

\* within 100 units ahead of the ship and 40 units of vertical offset
InEasyReach(p) ==
    /\ p.cx > CallShip.cx
    /\ p.cx - CallShip.cx <= 100
    /\ Abs(p.cy - CallShip.cy) <= 40

\* C5 as stated: with a boss and no dodge-worthy threat, any powerup within
\* 100 units ahead and 40 units of vertical offset is returned with
\* 'target_powerup', by either strategy.
C5_AnyPowerupInReach ==
    (last_op = "select_target" /\ boss # None /\ NoDodgeWorthyThreat)
        => \A p \in Range(powerups) :
               InEasyReach(p) => selected = Result("target_powerup", p)

\* C5, amended: the powerup is returned when it is moreover strictly the
\* nearest powerup to the ship and, for EnhancedAIStrategy, offensive (green
\* or orange).
C5_NearestOffensivePowerup ==
    (last_op = "select_target" /\ boss # None /\ NoDodgeWorthyThreat)
        => \A p \in Range(powerups) :
               (/\ InEasyReach(p)
                /\ \A q \in Range(powerups) :
                       q # p => Distance2(CallShip, q) > Distance2(CallShip, p)
                /\ strategy = "Enhanced" => p.type \in {"green", "orange"})
                   => selected = Result("target_powerup", p)

\* the enhanced strategy leaves the boss for the nearer of two powerups
C5_Witness ==
    /\ last_op = "select_target"
    /\ strategy = "Enhanced"
    /\ boss # None
    /\ NoDodgeWorthyThreat
    /\ Cardinality(Range(powerups)) = 2
    /\ selected.action = "target_powerup"
    /\ InEasyReach(selected.target)
    /\ selected.target.type = "green"

\* C8: predict_target_position on a target flagged is_boss returns the
\* target's current centre, whatever its velocity, the projectile speed and
\* the shooter.
C8_BossPredictionExact ==
    (last_op = "predict" /\ predict_args.target.is_boss)
        => predicted = [x |-> 1000 * predict_args.target.cx,
                        y |-> 1000 * predict_args.target.cy]

\* a moving boss, a positive projectile speed and a shooter
C8_Witness ==
    /\ last_op = "predict"
    /\ predict_args.target.is_boss
    /\ predict_args.target.velocity = <<-2, -3>>
    /\ predict_args.projectile_speed > 0
    /\ predict_args.ship # NoShooter
    /\ predicted.y = 1000 * predict_args.target.cy

\* rect.centery of the ship before and after the last update_ai
OldCenterY == old_y + (ShipHeight \div 2)
NewCenterY == rect_y + (ShipHeight \div 2)

\* C2: after every update_ai the ship's box is inside the vertical screen
\* bounds, provided the ship is not taller than the screen.
C2_InsideScreen ==
    (last_op = "update_ai" /\ ShipHeight <= screen_height)
        => (rect_y >= 0 /\ rect_y + ShipHeight <= screen_height)

\* a tick whose velocity would have carried the ship past the bottom edge
C2_Witness ==
    /\ last_op = "update_ai"
    /\ 1000 * old_y + vertical_velocity + 1000 * ShipHeight > 1000 * screen_height
    /\ rect_y + ShipHeight = screen_height

\* C3: in the dodge state with a vertical offset of at least 30 the ship does
\* not end the tick closer to the threat's centre than it began.
C3_DodgeMovesAway ==
    (/\ last_op = "update_ai"
     /\ ai_state = "dodge"
     /\ Abs(OldCenterY - current_target.cy) >= 30)
        => Abs(NewCenterY - current_target.cy) >= Abs(OldCenterY - current_target.cy)

\* C4 as stated: after every update_ai, ai_state is the state mapped from the
\* action select_target returned and current_target is the returned target.
C4_MirrorsSelector ==
    last_op = "update_ai"
        => (ai_state = StateMapping(selected.action) /\ current_target = selected.target)

\* C4, amended: the controller mirrors the selector unless a boss was handed
\* to update_ai and the mapped state is not dodge; then ai_state is
\* engage_boss and current_target is that boss.
C4_MirrorsUnlessBoss ==
    last_op = "update_ai"
        => IF boss # None /\ selected.action # "dodge"
           THEN ai_state = "engage_boss" /\ current_target = boss
           ELSE /\ current_target = selected.target
                /\ selected.action = "dodge" => ai_state = "dodge"
                /\ selected.action = "target_alien" => ai_state = "engage_enemy"
                /\ selected.action = "target_powerup" => ai_state = "collect_powerup"
                /\ selected.action = "patrol" => ai_state = "patrol"
                /\ selected.action = "target_boss" => ai_state = "engage_boss"

\* the selector chose a powerup and an enemy in two ticks, a boss overrode a
\* choice in between
C4_Witness ==
    /\ last_op = "update_ai"
    /\ boss = None
    /\ boss_engaged
    /\ selected.action = "target_alien"
    /\ ai_state = "engage_enemy"
    /\ current_target = selected.target

\* the offset between the active state's target y and the ship's centre at
\* the start of the last update_ai, in thousandths
TargetOffsetMilli ==
    CASE ai_state = "engage_boss" ->
             PredictTargetPosition(current_target, BulletSpeedMilli, ShipRect(old_y)).y
                 - 1000 * OldCenterY
      [] ai_state \in {"collect_powerup", "engage_enemy"} ->
             1000 * (current_target.cy - OldCenterY)
      [] ai_state = "patrol" -> 500 * screen_height - 1000 * OldCenterY
      [] OTHER -> 0

\* the dead zone of a state, in thousandths
DeadZoneMilli ==
    CASE ai_state = "engage_boss" -> 5000
      [] ai_state = "collect_powerup" -> 10000
      [] ai_state = "engage_enemy" -> 15000
      [] ai_state = "patrol" -> 15000
      [] OTHER -> 0

\* the last update_ai ended in a state with a dead zone, the target offset
\* within it
InDeadZone ==
    /\ last_op = "update_ai"
    /\ ai_state \in {"engage_boss", "collect_powerup", "engage_enemy", "patrol"}
    /\ Abs(TargetOffsetMilli) <= DeadZoneMilli

\* C6 as stated: with the offset within the state's dead zone the velocity
\* is 0 and the ship's vertical position is unchanged.
C6_DeadZoneKeepsPosition ==
    InDeadZone => (vertical_velocity = 0 /\ rect_y = old_y)

\* C6, amended: the velocity is 0, and the position is unchanged when the
\* ship's box was inside the vertical screen bounds as the tick began.
C6_DeadZoneZeroVelocity ==
    InDeadZone =>
        /\ vertical_velocity = 0
        /\ (old_y >= 0 /\ old_y + ShipHeight <= screen_height) => rect_y = old_y

\* an enemy 10 units below the ship's centre leaves the ship where it is
C6_Witness ==
    /\ InDeadZone
    /\ ai_state = "engage_enemy"
    /\ TargetOffsetMilli = 10000
    /\ rect_y = old_y

\* twice the signed offset of the ship's centre from the screen's midpoint,
\* for a ship whose rect.y is y
MidpointGap(y) == 2 * (y + (ShipHeight \div 2)) - screen_height

\* C7: with an empty world on every tick the distance of the ship's centre
\* to the screen's midpoint never increases, the ship never crosses the
\* midpoint, and eventually it is within 15 units of it for good.
C7_PatrolConverges ==
    /\ [][/\ Abs(MidpointGap(rect_y')) <= Abs(MidpointGap(rect_y))
          /\ MidpointGap(rect_y') * MidpointGap(rect_y) >= 0]_vars
    /\ <>[](Abs(MidpointGap(rect_y)) <= 30)

\* a patrol tick that moved the ship into the dead zone
C7_Witness ==
    /\ last_op = "update_ai"
    /\ ai_state = "patrol"
    /\ Abs(MidpointGap(old_y)) > 30
    /\ rect_y # old_y
    /\ Abs(MidpointGap(rect_y)) <= 30

C10_DeadAheadDodged ==
    (/\ last_op = "update_ai"
     /\ Len(boss_bullets) = 1
     /\ boss_bullets[1].cx = ShipCenterX + 50
     /\ boss_bullets[1].cy = OldCenterY)
        => (ai_state = "dodge" /\ current_target = boss_bullets[1])

\* the projectile is dodged with a boss present
C10_Witness ==
    /\ last_op = "update_ai"
    /\ Len(boss_bullets) = 1
    /\ boss_bullets[1].cx = ShipCenterX + 50
    /\ boss_bullets[1].cy = OldCenterY
    /\ boss # None
    /\ ai_state = "dodge"

\* C11: a ship hit with a life left leaves current_target and boss_engaged
\* as they were before the hit.
C11_RespawnKeepsTargeting ==
    [][(last_op' = "ship_hit" /\ ships_left' = ships_left - 1)
          => (current_target' = current_target /\ boss_engaged' = boss_engaged)]_vars

\* the states of the controller
AiStates == {"dodge", "engage_boss", "engage_enemy", "collect_powerup", "patrol"}

\* C12: whatever ticks and ship hits came before, ai_state is one of the five
\* states, patrol before the first tick; after a tick a state other than
\* patrol has a target, a selection without target and without boss ends in
\* patrol, and an unknown action maps to patrol.
C12_AlwaysValidState ==
    /\ ai_state \in AiStates
    /\ last_op = "init" => ai_state = "patrol"
    /\ (last_op = "update_ai" /\ ai_state # "patrol") => current_target # None
    /\ (last_op = "update_ai" /\ selected.target = None /\ boss = None) => ai_state = "patrol"
    /\ StateMapping("evade") = "patrol"

\* a tick on an empty world after a respawn
C12_Witness ==
    /\ last_op = "update_ai"
    /\ ships_left < ships_limit
    /\ aliens = <<>> /\ boss_bullets = <<>> /\ powerups = <<>> /\ boss = None
    /\ ai_state = "patrol"

\* the scenario of C13: ship centre at y = 300 on the 648 screen, one enemy
\* ahead at y = 500 outside the dangerous-enemy zone, nothing else
EnemyBelowScenario ==
    /\ last_op = "update_ai"
    /\ screen_height = resolution_height
    /\ OldCenterY = 300
    /\ boss = None /\ powerups = <<>> /\ boss_bullets = <<>>
    /\ Len(aliens) = 1
    /\ aliens[1].cy = 500
    /\ aliens[1].cx > ShipCenterX
    /\ ~IsDangerousEnemy(CallShip, aliens[1])

\* C13: in that scenario the tick ends in engage_enemy with the enemy as
\* target and a velocity that is positive and at most the base AI speed.
C13_EnemyBelowEngaged ==
    EnemyBelowScenario =>
        /\ ai_state = "engage_enemy"
        /\ current_target = aliens[1]
        /\ vertical_velocity > 0
        /\ vertical_velocity <= AiShipSpeedMilli

\* the scenario happened and the ship moved down
C13_Witness ==
    /\ EnemyBelowScenario
    /\ vertical_velocity = AiShipSpeedMilli
    /\ rect_y = old_y + 46

\* C14: with a boss and no dodge-worthy threat the tick ends in engage_boss
\* with the boss as target, and outside the dead zone of 5 the velocity is
\* 0.65 times the offset to the boss's centre, clamped to 2.5 times the base
\* speed.
C14_BossEngagedAtCentre ==
    (last_op = "update_ai" /\ boss # None /\ NoDodgeWorthyThreat)
        => /\ ai_state = "engage_boss"
           /\ current_target = boss
           /\ Abs(boss.cy - OldCenterY) > 5 =>
                 LET v == 650 * (boss.cy - OldCenterY)
                     cap == (5 * AiShipSpeedMilli) \div 2
                 IN vertical_velocity = IF v > cap THEN cap ELSE IF v < -cap THEN -cap ELSE v

\* ship centre at 300, a moving boss flagged is_boss at 100
C14_Witness ==
    /\ last_op = "update_ai"
    /\ OldCenterY = 300
    /\ boss # None
    /\ boss.cy = 100
    /\ boss.is_boss
    /\ boss.velocity # NoVelocity
    /\ ai_state = "engage_boss"
    /\ vertical_velocity = -115200

\* C15: a tick that ends in engage_boss with a powerup active and stacks left
\* lowers powerup_stacks by one and clears active_powerup at 0; the stacks
\* are never negative.
C15_PowerupUsed ==
    /\ [][(/\ last_op' = "update_ai"
           /\ clock' = clock
           /\ ai_state' = "engage_boss"
           /\ active_powerup # "none"
           /\ powerup_stacks > 0)
              => /\ powerup_stacks' = powerup_stacks - 1
                 /\ powerup_stacks' = 0 => active_powerup' = "none"]_vars
    /\ [](powerup_stacks >= 0)

\* closer than the threat threshold of 150
Within150(obj) == Distance2(CallShip, obj) < 150 * 150

\* C16 as stated: EnhancedAIStrategy returns 'dodge' exactly when some zone
\* projectile is within 150 units or some dangerous enemy is within 150 units.
C16_DodgeIffThreatWithin150 ==
    (last_op = "select_target" /\ strategy = "Enhanced")
        => (selected.action = "dodge"
              <=> \/ \E b \in ZoneBullets : Within150(b)
                  \/ \E a \in Range(aliens) : IsDangerousEnemy(CallShip, a) /\ Within150(a))

\* C16, amended: only the zone projectile of lowest danger score is tested
\* against the 150 units; if it is farther, only a dangerous enemy within 150
\* units gives 'dodge'.
C16_DodgeIffReportedWithin150 ==
    (last_op = "select_target" /\ strategy = "Enhanced")
        => LET bulletClose == MostDangerous # {} /\ \A b \in MostDangerous : Within150(b)
               bulletFar == \A b \in MostDangerous : ~Within150(b)
               enemyClose == \E a \in Range(aliens) :
                                 IsDangerousEnemy(CallShip, a) /\ Within150(a)
           IN /\ bulletClose => (selected.action = "dodge" /\ selected.target \in MostDangerous)
              /\ (bulletFar /\ enemyClose) =>
                     (selected.action = "dodge" /\ selected.target.kind = "alien")
              /\ (bulletFar /\ ~enemyClose) => selected.action # "dodge"

\* a near projectile is dodged with a farther one also in the zone
C16_Witness ==
    /\ last_op = "select_target"
    /\ strategy = "Enhanced"
    /\ \E b \in ZoneBullets : Within150(b)
    /\ \E b \in ZoneBullets : ~Within150(b)
    /\ selected.action = "dodge"
    /\ Within150(selected.target)

\* offensive, within 150 units, and easily reachable: distance below 120 and
\* vertical offset below 60
ReachableOffensive(p) ==
    /\ p.type \in {"green", "orange"}
    /\ Within150(p)
    /\ Distance2(CallShip, p) < 120 * 120
    /\ Abs(p.cy - CallShip.cy) < 60

\* the boss is within the detection range of EnhancedAIStrategy
BossInRange == boss # None /\ Distance2(CallShip, boss) <= detection_range * detection_range

\* a boss the strategy in use takes into account
BossConsidered == boss # None /\ (strategy = "Enhanced" => BossInRange)

\* C17 as stated: with a boss in range and no dodge, EnhancedAIStrategy returns
\* 'target_powerup' with a reachable offensive powerup whenever there is one,
\* and ('target_boss', boss) otherwise.
C17_AnyReachableOffensive ==
    (/\ last_op = "select_target" /\ strategy = "Enhanced"
     /\ BossInRange /\ selected.action # "dodge")
        => LET R == {p \in Range(powerups) : ReachableOffensive(p)}
           IN IF R # {}
              THEN selected.action = "target_powerup" /\ selected.target \in R
              ELSE selected = Result("target_boss", boss)

\* the offensive powerups within 150 units at minimal distance
NearestOffensive ==
    LET O == {p \in Range(powerups) : p.type \in {"green", "orange"} /\ Within150(p)}
    IN {p \in O : \A q \in O : Distance2(CallShip, p) <= Distance2(CallShip, q)}

\* C17, amended: with a boss within 1500 units and no dodge, the powerup is
\* returned when the nearest offensive powerup within 150 units is easily
\* reachable, and ('target_boss', boss) is returned when it is not or there
\* is none.
C17_NearestOffensiveReachable ==
    (/\ last_op = "select_target" /\ strategy = "Enhanced"
     /\ BossInRange /\ selected.action # "dodge")
        => /\ (NearestOffensive # {} /\ \A p \in NearestOffensive : ReachableOffensive(p))
                 => (selected.action = "target_powerup" /\ selected.target \in NearestOffensive)
           /\ (\A p \in NearestOffensive : ~ReachableOffensive(p))
                 => selected = Result("target_boss", boss)

\* the green powerup is preferred to the boss while an orange one is far away
C17_Witness ==
    /\ last_op = "select_target"
    /\ strategy = "Enhanced"
    /\ BossInRange
    /\ \E p \in Range(powerups) : p.type = "orange" /\ ~Within150(p)
    /\ selected.action = "target_powerup"
    /\ ReachableOffensive(selected.target)

\* C18 as stated: with a boss present either strategy returns
\* 'target_powerup' only with a green or orange powerup.
C18_OnlyOffensiveDuringBoss ==
    (last_op = "select_target" /\ BossConsidered /\ selected.action = "target_powerup")
        => selected.target.type \in {"green", "orange"}

\* C18, amended: so does EnhancedAIStrategy with the boss within 1500 units.
C18_EnhancedOnlyOffensive ==
    (/\ last_op = "select_target" /\ strategy = "Enhanced"
     /\ BossInRange /\ selected.action = "target_powerup")
        => selected.target.type \in {"green", "orange"}

\* a red powerup in easy reach, alone, does not divert from the boss
C18_Witness ==
    /\ last_op = "select_target"
    /\ strategy = "Enhanced"
    /\ BossInRange
    /\ Len(powerups) = 1
    /\ powerups[1].type = "red"
    /\ InEasyReach(powerups[1])
    /\ selected = Result("target_boss", boss)

\* step 4 of the selection: no dodge, no boss considered, some powerup
PowerupStep ==
    /\ last_op = "select_target"
    /\ boss = None
    /\ selected.action # "dodge"
    /\ powerups # <<>>

\* C19 as stated: in step 4 the powerup returned is at minimal distance from
\* the ship among all powerups.
C19_NearestPowerup ==
    PowerupStep =>
        /\ selected.action = "target_powerup"
        /\ selected.target \in Range(powerups)
        /\ \A q \in Range(powerups) :
               Distance2(CallShip, selected.target) <= Distance2(CallShip, q)

\* C19, amended: it is at minimal distance among the powerups ahead of the
\* ship if there is one ahead, among all powerups otherwise.
C19_NearestAheadFirst ==
    PowerupStep =>
        LET A == {p \in Range(powerups) : p.cx > CallShip.cx}
            pool == IF A # {} THEN A ELSE Range(powerups)
        IN /\ selected.action = "target_powerup"
           /\ selected.target \in pool
           /\ \A q \in pool : Distance2(CallShip, selected.target) <= Distance2(CallShip, q)

\* a powerup ahead is returned although one behind the ship is nearer
C19_Witness ==
    /\ PowerupStep
    /\ selected.action = "target_powerup"
    /\ selected.target.cx > CallShip.cx
    /\ \E q \in Range(powerups) :
           /\ q.cx <= CallShip.cx
           /\ Distance2(CallShip, q) < Distance2(CallShip, selected.target)

\* C20: an enemy returned with 'dodge' has its left edge at or beyond the
\* ship's right edge and less than 70 units from it, its centre within 50
\* units of the ship's vertically, and is the nearest of such enemies.
C20_DangerousEnemyAhead ==
    (last_op = "select_target" /\ selected.action = "dodge" /\ selected.target.kind = "alien")
        => LET Q == {a \in Range(aliens) :
                        /\ RectLeft(a) >= CallShip.right
                        /\ RectLeft(a) - CallShip.right < 70
                        /\ Abs(a.cy - CallShip.cy) < 50}
           IN /\ selected.target \in Q
              /\ \A q \in Q : Distance2(CallShip, selected.target) <= Distance2(CallShip, q)

\* the projectile's y carried along its velocity to the ship's x lies within
\* one ship height of the ship's y (a horizontal flight included)
ProjectedOntoShip(ship, bullet) ==
    /\ bullet.velocity # NoVelocity
    /\ LET vx == bullet.velocity[1]
           vy == bullet.velocity[2]
       IN /\ vx # 0
          /\ (ship.cx - bullet.cx) * vx > 0
          /\ Abs((bullet.cy - ship.cy) * vx + vy * (ship.cx - bullet.cx)) < ship.h * Abs(vx)

\* C21: the projectile the threat detector reports (AggressiveStrategy dodges
\* it at once) is a zone projectile of lowest distance x trajectory_factor,
\* the factor being 0.5 exactly when the projected y is within one ship
\* height, a horizontal flight at the ship included; with no zone projectile
\* none is reported.
C21_MinimisesProjectedScore ==
    (last_op = "select_target" /\ strategy = "Aggressive")
        => LET Score(b) == Distance2(CallShip, b) *
                               (IF ProjectedOntoShip(CallShip, b) THEN 1 ELSE 4)
           IN IF ZoneBullets = {}
              THEN ~(selected.action = "dodge" /\ selected.target.kind = "bullet")
              ELSE /\ selected.action = "dodge"
                   /\ selected.target \in ZoneBullets
                   /\ \A b \in ZoneBullets : Score(selected.target) <= Score(b)

\* the entities of a collection the strategy in use takes into account
Considered(s) ==
    {e \in Range(s) : strategy = "Enhanced" =>
                          Distance2(CallShip, e) <= detection_range * detection_range}

\* distance x position_factor squared, times 100: 0.7 for an enemy whose
\* centre x is greater than the ship's, 1.5 otherwise
PositionScore(a) == Distance2(CallShip, a) * (IF a.cx > CallShip.cx THEN 49 ELSE 225)

\* C22: with no dodge, no boss and no powerup considered and at least one
\* enemy considered, select_target returns 'target_alien' with a considered
\* enemy of lowest distance x position_factor.
C22_EngagesLowestScore ==
    (/\ last_op = "select_target"
     /\ selected.action # "dodge"
     /\ ~BossConsidered
     /\ Considered(powerups) = {}
     /\ Considered(aliens) # {})
        => /\ selected.action = "target_alien"
           /\ selected.target \in Considered(aliens)
           /\ \A a \in Considered(aliens) : PositionScore(selected.target) <= PositionScore(a)

\* an enemy ahead is engaged although an enemy behind the ship is nearer
C22_Witness ==
    /\ last_op = "select_target"
    /\ selected.action = "target_alien"
    /\ selected.target.cx > CallShip.cx
    /\ \E a \in Range(aliens) :
          /\ a.cx <= CallShip.cx
          /\ Distance2(CallShip, a) < Distance2(CallShip, selected.target)

\* a threat worth dodging for the strategy in use: a projectile passing the
\* zone checks or an enemy passing the dangerous-enemy checks, for
\* EnhancedAIStrategy moreover within 150 units
DodgeWorthy ==
    {e \in ZoneBullets \cup {a \in Considered(aliens) : IsDangerousEnemy(CallShip, a)} :
        strategy = "Enhanced" => Within150(e)}

\* the one projectile the threat detector reports to select_target
ReportedBullet == FindDangerousBullet(CallShip, boss_bullets)

\* every result other than patrol carries a target taken from the collection
\* its action refers to
TargetFromItsCollection ==
    /\ selected.action = "dodge" => selected.target \in Range(boss_bullets) \cup Range(aliens)
    /\ selected.action = "target_boss" => (boss # None /\ selected.target = boss)
    /\ selected.action = "target_powerup" => selected.target \in Range(powerups)
    /\ selected.action = "target_alien" => selected.target \in Range(aliens)
    /\ selected.action # "patrol" => selected.target # None

\* C23 as stated: select_target returns ('patrol', None) exactly when no
\* dodge-worthy threat, boss, powerup or enemy is among the considered
\* entities, and every other result carries a target from the collection of
\* its action.
C23_PatrolIffNothingConsidered ==
    last_op = "select_target"
        => /\ selected = Result("patrol", None)
                <=> /\ DodgeWorthy = {}
                    /\ ~BossConsidered
                    /\ Considered(powerups) = {}
                    /\ Considered(aliens) = {}
           /\ TargetFromItsCollection

\* C23, amended: select_target returns ('patrol', None) exactly when no boss,
\* powerup or enemy is considered and the one projectile the threat detector
\* reports (the zone projectile of lowest danger score) does not trigger a
\* dodge: there is none or, in EnhancedAIStrategy, it is 150 units or more
\* away; every other result carries a target from the collection of its
\* action.
C23_PatrolIffNothingReported ==
    last_op = "select_target"
        => /\ selected = Result("patrol", None)
                <=> /\ \/ ReportedBullet = None
                       \/ strategy = "Enhanced" /\ ~Within150(ReportedBullet)
                    /\ ~BossConsidered
                    /\ Considered(powerups) = {}
                    /\ Considered(aliens) = {}
           /\ TargetFromItsCollection

\* EnhancedAIStrategy patrols with projectiles in the zone and nothing else
\* in the snapshot
C23_Witness ==
    /\ last_op = "select_target"
    /\ strategy = "Enhanced"
    /\ ZoneBullets # {}
    /\ aliens = <<>> /\ powerups = <<>>
    /\ selected = Result("patrol", None)

\* the enemies, powerups and boss of the snapshot at exactly 1500 units
AtRangeLimit ==
    {e \in Range(aliens) \cup Range(powerups) \cup (IF boss # None THEN {boss} ELSE {}) :
        Distance2(CallShip, e) = detection_range * detection_range}

\* C24: EnhancedAIStrategy.select_target never returns a target farther than
\* 1500 units from the ship, and an enemy, powerup or boss at exactly 1500
\* units is taken into account: with one in the snapshot the result is not
\* patrol.
C24_TargetWithinRange ==
    (last_op = "select_target" /\ strategy = "Enhanced")
        => /\ selected.target # None =>
                  Distance2(CallShip, selected.target) <= detection_range * detection_range
           /\ AtRangeLimit # {} => selected.action # "patrol"

\* an entity at exactly 1500 units is returned with an entity at 1501 units
\* in the same snapshot
C24_Witness ==
    /\ last_op = "select_target"
    /\ strategy = "Enhanced"
    /\ selected.target \in AtRangeLimit
    /\ \E e \in Range(aliens) \cup Range(powerups) :
          Distance2(CallShip, e) > detection_range * detection_range

\* what the strategy in use returns for given ship row and collections,
\* nothing else being read
SelectionOf(strat, y, in_aliens, in_boss, in_powerups, in_boss_bullets) ==
    IF strat = "Enhanced"
    THEN EnhancedSelectTarget(ShipRect(y), in_aliens, in_boss, in_powerups, in_boss_bullets)
    ELSE AggressiveSelectTarget(ShipRect(y), in_aliens, in_boss, in_powerups, in_boss_bullets)

ClaimedTimeMilli ==
    IF predict_args.ship = NoShooter THEN 500
    ELSE IF predict_args.projectile_speed > 0
         THEN (SqrtTenths(Distance2(predict_args.target, predict_args.ship)) * 100000)
                  \div predict_args.projectile_speed
         ELSE 0

\* the velocity of the target of the last prediction, (0, 0) if it has none
ClaimedVelocity ==
    IF predict_args.target.velocity = NoVelocity THEN <<0, 0>>
    ELSE predict_args.target.velocity

\* C26: for a target not flagged as boss, predict_target_position returns
\* current position + velocity x time_to_target, with time_to_target =
\* distance / projectile_speed (shooter given, speed > 0), 0 (shooter given,
\* speed <= 0) or 0.5 (no shooter); with zero or missing velocity the result
\* is the current position.
C26_LinearPrediction ==
    (last_op = "predict" /\ ~predict_args.target.is_boss)
        => /\ predicted = [x |-> 1000 * predict_args.target.cx
                                    + ClaimedVelocity[1] * ClaimedTimeMilli,
                           y |-> 1000 * predict_args.target.cy
                                    + ClaimedVelocity[2] * ClaimedTimeMilli]
           /\ ClaimedVelocity = <<0, 0>> =>
                  predicted = [x |-> 1000 * predict_args.target.cx,
                               y |-> 1000 * predict_args.target.cy]

\* an unflagged moving target without a shooter is led by half a time unit
C26_Witness ==
    /\ last_op = "predict"
    /\ ~predict_args.target.is_boss
    /\ predict_args.target.velocity = <<-2, -3>>
    /\ predict_args.ship = NoShooter
    /\ predicted = [x |-> 1000 * predict_args.target.cx - 1000,
                    y |-> 1000 * predict_args.target.cy - 1500]

\* the speed cap of the active state, in thousandths: 2.0, 2.5, 1.5, 1.0 and
\* 0.6 times ai_ship_speed
StateCapMilli ==
    CASE ai_state = "dodge" -> 2 * AiShipSpeedMilli
      [] ai_state = "engage_boss" -> (5 * AiShipSpeedMilli) \div 2
      [] ai_state = "collect_powerup" -> (3 * AiShipSpeedMilli) \div 2
      [] ai_state = "engage_enemy" -> AiShipSpeedMilli
      [] OTHER -> (6 * AiShipSpeedMilli) \div 10

\* the gain of the active state, in thousandths
StateGainMilli ==
    CASE ai_state = "dodge" -> 500
      [] ai_state = "engage_boss" -> 650
      [] ai_state = "collect_powerup" -> 550
      [] ai_state = "engage_enemy" -> 450
      [] OTHER -> 150

\* the offset the velocity is taken from: target y minus the ship's centre y
\* as the tick began (for patrol the target is the middle of the screen)
RawOffsetMilli ==
    IF ai_state = "dodge"
    THEN (IF current_target # None THEN 1000 * (current_target.cy - OldCenterY) ELSE 0)
    ELSE IF ai_state # "patrol" /\ current_target = None THEN 0
    ELSE TargetOffsetMilli

\* the offset after the dodge branch has replaced a raw offset below 30 by 50
\* or -50, depending on the room above the ship
EffectiveOffsetMilli ==
    IF ai_state = "dodge" /\ current_target # None /\ Abs(RawOffsetMilli) < 30000
    THEN (IF 1000 * old_y > 4 * AiShipSpeedMilli THEN 50000 ELSE -50000)
    ELSE RawOffsetMilli

\* C27 as stated: after every update_ai the velocity is within the cap of
\* the active state, and it equals offset x gain whenever that product is
\* within the cap.
C27_CappedGain ==
    last_op = "update_ai"
        => /\ Abs(vertical_velocity) <= StateCapMilli
           /\ Abs((RawOffsetMilli * StateGainMilli) \div 1000) <= StateCapMilli
                  => vertical_velocity = (RawOffsetMilli * StateGainMilli) \div 1000

\* C27, amended: the velocity is within the cap of the active state; it is 0
\* when the offset is within the state's dead zone (dodge has none), and
\* otherwise offset x gain cut to the cap, where in dodge an offset below 30
\* is first replaced by 50 or -50.
C27_CappedGainOutsideDeadZone ==
    last_op = "update_ai"
        => LET product == (EffectiveOffsetMilli * StateGainMilli) \div 1000
           IN /\ Abs(vertical_velocity) <= StateCapMilli
              /\ IF ai_state # "dodge" /\ Abs(RawOffsetMilli) <= DeadZoneMilli
                 THEN vertical_velocity = 0
                 ELSE /\ Abs(product) <= StateCapMilli => vertical_velocity = product
                      /\ product > StateCapMilli => vertical_velocity = StateCapMilli
                      /\ product < -StateCapMilli => vertical_velocity = -StateCapMilli

\* a tick that engages a boss far above the ship moves at the boss cap
C27_Witness ==
    /\ last_op = "update_ai"
    /\ ai_state = "engage_boss"
    /\ (RawOffsetMilli * StateGainMilli) \div 1000 < -StateCapMilli
    /\ vertical_velocity = -StateCapMilli

\* a step that respawns the ship: Play, or a ship hit
RespawnStep == last_op' \in {"play", "ship_hit"} /\ last_op' # last_op

\* a step that is one call of update_ai (the clock stands still within it)
UpdateAiStep == last_op' = "update_ai" /\ clock' = clock

\* C28: every respawn makes the ship invulnerable from now for 3000 ms; after
\* every update_ai at time t the ship is invulnerable only if t minus the
\* start time is below the duration; and with the game's ticks and the clock
\* going on, an invulnerable ship eventually is vulnerable again.
C28_InvulnerabilityExpires ==
    /\ [][/\ RespawnStep => /\ invulnerable'
                            /\ invulnerability_start_time' = clock
                            /\ invulnerability_duration' = 3000
          /\ UpdateAiStep => (invulnerable' =>
                                 clock - invulnerability_start_time' < invulnerability_duration')
         ]_vars
    /\ (/\ game_active
        /\ invulnerable
        /\ invulnerability_start_time + invulnerability_duration <= MaxClock)
           ~> ~invulnerable

\* a tick after the respawn's 3000 ms has ended the invulnerability
C28_Witness ==
    /\ last_op = "update_ai"
    /\ game_active
    /\ ships_left < ships_limit
    /\ invulnerability_duration = 3000
    /\ clock - invulnerability_start_time >= 3000
    /\ ~invulnerable

\* the projectiles of the game's boss_bullets group that are in the ship's
\* danger zone and within 150 units as a frame begins
GroupThreats ==
    {b \in Range(si_boss_bullets) :
        /\ InBulletZone(ShipRect(rect_y), b)
        /\ Distance2(ShipRect(rect_y), b) < 150 * 150}

\* C29: in every frame of the active game, a projectile of the boss_bullets
\* group in the ship's danger zone and within 150 units makes ai_state
\* 'dodge' in that frame's update_ai, with or without an active boss.
C29_GroupProjectilesDodged ==
    [][(UpdateAiStep /\ game_active /\ GroupThreats # {}) => ai_state' = "dodge"]_vars

\* C30: the green and orange powerup counters are decremented by
\* _fire_bullet, and a laser or spread shot fired, only while a boss is
\* active (boss_active true and boss not None).
C30_OffensiveOnlyWithBoss ==
    [][(/\ last_op' = "fire_bullet"
        /\ \/ green_powerups' = green_powerups - 1
           \/ orange_powerups' = orange_powerups - 1)
          => (si_boss_active /\ si_boss # None)]_vars

\* C31: at the end of every game tick the boss_bullets group holds at most
\* 10 projectiles, whether a boss is active or not
C31_AtMostTenProjectiles ==
    (game_active /\ AtFrameStart) => Len(si_boss_bullets) <= 10

\* a step of _ship_hit
ShipHitStep == last_op' = "ship_hit" /\ last_op # "ship_hit"

\* a step of one of the two collision tests of a frame that did not call
\* _ship_hit
ShieldedStep ==
    /\ last_op' \in {"update_aliens", "alien_destroyed", "update_boss_bullets"}
    /\ last_op' # last_op

\* C32: while the ship is invulnerable no step costs a life or respawns the
\* ship, and the collision tests leave the boss in play and, in
\* _update_aliens, the projectiles in their group; every _ship_hit comes at
\* least 3000 ms after the invulnerability was last armed and arms it again,
\* so that two losses of a life are at least 3000 ms apart
C32_NoLossWhileInvulnerable ==
    [][/\ (game_active /\ invulnerable) =>
              /\ ~ShipHitStep
              /\ ships_left' = ships_left
              /\ game_active'
              /\ invulnerability_start_time' = invulnerability_start_time
              /\ ShieldedStep =>
                     /\ si_boss_active' = si_boss_active
                     /\ last_op' # "update_boss_bullets" =>
                            /\ si_boss' = si_boss
                            /\ Len(si_boss_bullets') >= Len(si_boss_bullets)
                            /\ SubSeq(si_boss_bullets', 1, Len(si_boss_bullets)) = si_boss_bullets
       /\ ShipHitStep =>
              /\ clock - invulnerability_start_time >= RespawnInvulnerability
              /\ invulnerable'
              /\ invulnerability_start_time' = clock
              /\ invulnerability_duration' = RespawnInvulnerability]_vars

\* an invulnerable ship has just destroyed an alien it touched, two lives
\* having been lost before
C32_Witness ==
    /\ last_op = "alien_destroyed"
    /\ invulnerable
    /\ ships_left = ships_limit - 2

\* C33: when select_target does not dodge, a powerup and an enemy both
\* considered and no boss considered give 'target_powerup' with a considered
\* powerup, never 'target_alien'; a boss considered gives 'target_boss' or
\* 'target_powerup', never 'target_alien' or 'patrol'
C33_PowerupBeforeEnemy ==
    (last_op = "select_target" /\ selected.action # "dodge")
        => /\ (/\ ~BossConsidered
               /\ Considered(powerups) # {}
               /\ Considered(aliens) # {})
                  => /\ selected.action = "target_powerup"
                     /\ selected.target \in Considered(powerups)
           /\ BossConsidered => selected.action \in {"target_boss", "target_powerup"}

\* with no boss, a powerup is collected although an enemy is nearer to the
\* ship than the powerup
C33_Witness ==
    /\ last_op = "select_target"
    /\ boss = None
    /\ selected.action = "target_powerup"
    /\ \E a \in Considered(aliens) :
          Distance2(CallShip, a) < Distance2(CallShip, selected.target)

\* a step of _spawn_boss
SpawnStep == last_op' = "spawn_boss" /\ last_op # "spawn_boss"

\* C34: a boss is spawned only with no boss active and at least 120000 ms
\* after last_boss_death_time (the game's start or reset, or the destruction
\* of the boss before), and at least 120000 ms after the spawn before
C34_SpawnsFarApart ==
    [][SpawnStep =>
          /\ ~si_boss_active
          /\ clock - last_boss_death_time >= boss_respawn_delay
          /\ last_spawn_time >= 0 => clock - last_spawn_time >= boss_respawn_delay]_vars

\* a step of _update_boss
UpdateBossStep == last_op' = "update_boss" /\ last_op # "update_boss"

\* C35: between the steps of the game loop boss_active is true exactly when
\* boss is not None, and a boss in play has health above 0; the _update_boss
\* that uses up the health removes the boss and sets last_boss_death_time to
\* the time of that frame
C35_BossActiveIffBoss ==
    /\ [](/\ si_boss_active <=> si_boss # None
          /\ si_boss_active => si_boss.health > 0)
    /\ [][(UpdateBossStep /\ si_boss' = None) =>
              /\ ~si_boss_active'
              /\ last_boss_death_time' = clock]_vars

\* a boss has been destroyed by the bullets of the ship, in the frame whose
\* time last_boss_death_time holds
C35_Witness ==
    /\ last_op = "update_boss"
    /\ ~si_boss_active
    /\ si_boss = None
    /\ last_spawn_time >= 0
    /\ last_boss_death_time = clock
    /\ last_boss_death_time > last_spawn_time

\* C36: the lives left and the three powerup counters are never negative; a
\* _ship_hit happens to a vulnerable ship only, with a life left it takes
\* exactly one life and leaves the game active, and with none left it ends
\* the game with the statistics reset: all lives, no powerups
C36_CountersNeverNegative ==
    /\ [](/\ ships_left >= 0
          /\ green_powerups >= 0
          /\ orange_powerups >= 0
          /\ yellow_powerups >= 0)
    /\ [][ShipHitStep =>
              /\ ~invulnerable
              /\ IF ships_left > 0
                 THEN /\ ships_left' = ships_left - 1
                      /\ game_active'
                 ELSE /\ ~game_active'
                      /\ ships_left' = ships_limit
                      /\ green_powerups' = 0
                      /\ orange_powerups' = 0
                      /\ yellow_powerups' = 0]_vars

\* the game has just ended by a hit with no life left, after the last
\* powerup collected was spent on a shot
C36_Witness ==
    /\ last_op = "ship_hit"
    /\ ~game_active
    /\ ships_left = ships_limit
    /\ last_shot \in {"laser", "spread"}

(* ---------------- C37: steering toward a fixed aim point ---------------- *)

\* the y the branch of ai_state steers to, in thousandths: predicted_pos[1]
\* in engage_boss, target.rect.centery in collect_powerup and engage_enemy,
\* screen_middle = height * 0.5 in patrol
AimPoint(state, target, ship, height) ==
    IF state = "engage_boss"
    THEN PredictTargetPosition(target, BulletSpeedMilli, ship).y
    ELSE IF state = "patrol" THEN 500 * height
    ELSE 1000 * target.cy

\* the states of update_ai that steer to an aim point, with the target
\* their branch requires
Steering ==
    /\ last_op = "update_ai"
    /\ ai_state \in {"engage_boss", "collect_powerup", "engage_enemy", "patrol"}
    /\ ai_state # "patrol" => current_target # None

\* signed offset of the aim point of the last tick from the ship's centre
\* when the ship's rect.y is y
AimGap(y) ==
    AimPoint(ai_state, current_target, ShipRect(old_y), screen_height)
        - 1000 * (y + (ShipHeight \div 2))

\* C37: after a tick in engage_boss, collect_powerup, engage_enemy or patrol
\* the ship's centre is on the same side of the aim point as before (or on
\* it) and no farther from it than before.
C37_NoOvershoot ==
    Steering => /\ \/ AimGap(rect_y) >= 0 /\ AimGap(old_y) >= 0
                   \/ AimGap(rect_y) <= 0 /\ AimGap(old_y) <= 0
                /\ Abs(AimGap(rect_y)) <= Abs(AimGap(old_y))

\* One thing to steer to, held where it is on every tick: nothing (patrol),
\* an enemy low on the screen, an enemy at the top edge, a powerup, a boss
\* as class Boss builds it
SteerWorlds ==
    { World(<<>>, <<>>, None, <<>>),
      World(<<Alien(600, 500)>>, <<>>, None, <<>>),
      World(<<Alien(600, 30)>>, <<>>, None, <<>>),
      World(<<>>, <<>>, None, <<Powerup("green", 600, 200)>>),
      World(<<>>, <<>>, Boss(1000, 100, 60, 60, NoVelocity, FALSE), <<>>) }

\* The ship wherever earlier ticks have left it, the window at any of its
\* heights (so possibly shrunk above the ship), the controller as constructed
SteerInit ==
    /\ rect_y \in 0..(resolution_height - ShipHeight)
    /\ screen_height \in ScreenHeights
    /\ ai_state = "patrol"
    /\ current_target = None
    /\ boss_engaged = FALSE
    /\ active_powerup = "none"
    /\ powerup_stacks = 0
    /\ invulnerable = FALSE
    /\ invulnerability_start_time = 0
    /\ invulnerability_duration = 0
    /\ clock = 0
    /\ strategy = "Enhanced"
    /\ GameRunning
    /\ \E w \in SteerWorlds :
          /\ aliens = w.aliens
          /\ boss_bullets = w.boss_bullets
          /\ boss = w.boss
          /\ powerups = w.powerups
    /\ predict_args = NoArgs
    /\ NoResult

\* update_ai on the same snapshot as the tick before
SteerTick == UpdateAi(aliens, boss_bullets, boss, powerups)

\* the game loop keeps calling update_ai while the game is active
SteerSpec == SteerInit /\ [][SteerTick]_vars /\ WF_vars(SteerTick)

\* the threshold abs(diff) must exceed for the branch of a state to move
\* the ship: 5 in engage_boss, 10 in collect_powerup, 15 otherwise
DeadZone(state) ==
    IF state = "engage_boss" THEN 5
    ELSE IF state = "collect_powerup" THEN 10
    ELSE 15

\* new_y < 0 or new_y + rect.height > height: the clamp of update_ai
\* decided the ship's row
ClampStopped ==
    \/ 1000 * old_y + vertical_velocity < 0
    \/ 1000 * (old_y + ShipHeight) + vertical_velocity > 1000 * screen_height

\* the ship is inside the dead zone of its state, or held by the clamp
Settled ==
    /\ Steering
    /\ \/ Abs(AimGap(rect_y)) <= 1000 * DeadZone(ai_state)
       \/ ClampStopped

\* a tick that began with the ship's box inside the window
StartedInside == old_y >= 0 /\ old_y + ShipHeight <= screen_height

\* C37 (restated): after a tick in engage_boss, collect_powerup,
\* engage_enemy or patrol that began with the ship inside the window, the
\* ship's centre is on the same side of the aim point as before (or on it)
\* and no farther from it; with the snapshot held fixed the ship eventually
\* is inside the dead zone of its state or held by the screen-bound clamp.
C37_NoOvershootInsideWindow ==
    /\ [](Steering /\ StartedInside =>
             /\ \/ AimGap(rect_y) >= 0 /\ AimGap(old_y) >= 0
                \/ AimGap(rect_y) <= 0 /\ AimGap(old_y) <= 0
             /\ Abs(AimGap(rect_y)) <= Abs(AimGap(old_y)))
    /\ <>Settled

\* a tick toward a powerup that moved the ship into the dead zone without
\* crossing the powerup's row
C37_Witness ==
    /\ Steering
    /\ ai_state = "collect_powerup"
    /\ StartedInside
    /\ Abs(AimGap(old_y)) > 1000 * DeadZone(ai_state)
    /\ rect_y # old_y
    /\ Abs(AimGap(rect_y)) <= 1000 * DeadZone(ai_state)
    /\ AimGap(rect_y) # 0

\* C38: a step of _update_boss adds a projectile only for a boss in the
\* combat phase whose last attack (or construction) is at least
\* attack_cooldown ago; last_attack_time changes only in such a step, to the
\* time of the frame; and a boss in the combat phase stays in it.
C38_AttacksInCombatOnly ==
    [][/\ (UpdateBossStep /\ si_boss_bullets' # si_boss_bullets) =>
              /\ MoveBoss(si_boss).phase = "combat"
              /\ clock - si_boss.last_attack_time >= attack_cooldown
              /\ si_boss_bullets' = Append(si_boss_bullets, FiredBullet(MoveBoss(si_boss)))
       /\ (si_boss # None /\ si_boss' # None) =>
              /\ si_boss'.last_attack_time # si_boss.last_attack_time =>
                    /\ UpdateBossStep
                    /\ si_boss'.last_attack_time = clock
                    /\ Len(si_boss_bullets') = Len(si_boss_bullets) + 1
              /\ si_boss.phase = "combat" => si_boss'.phase = "combat"]_vars

\* the boss, in the combat phase, has just fired its second projectile,
\* 5000 ms after the first
C38_Witness ==
    /\ last_op = "update_boss"
    /\ si_boss # None
    /\ si_boss.phase = "combat"
    /\ si_boss.last_attack_time = clock
    /\ clock = last_spawn_time + 2 * attack_cooldown
    /\ Cardinality({ i \in DOMAIN si_boss_bullets :
                        si_boss_bullets[i].cx = FiredBullet(si_boss).cx }) >= 2

(* ---------------- C39: the two strategies on nearby entities ---------------- *)

\* Ship rows the selector is called at
NearShipYs == {100, 268}

\* Projectiles around the ship: dead ahead; in the zone at 140 units; in the
\* zone, 100 ahead and 100 above; behind the ship; dead ahead at exactly 150
\* units.
NearBullets(ship) ==
    { BossBullet(ship.cx + 50, ship.cy, NoVelocity),
      BossBullet(ship.cx + 140, ship.cy + 10, NoVelocity),
      BossBullet(ship.cx + 100, ship.cy - 100, NoVelocity),
      BossBullet(ship.cx - 60, ship.cy, NoVelocity),
      BossBullet(ship.cx + 150, ship.cy, NoVelocity) }

\* Enemies: dangerously close; close but 100 units off the ship's row;
\* dangerously close at exactly 150 units; far ahead.
NearAliens(ship) ==
    { Alien(200, ship.cy + 35),
      Alien(ship.cx + 100, ship.cy + 100),
      Alien(ship.cx + 150, ship.cy),
      Alien(600, 500) }

\* Powerups: offensive and in easy reach; offensive, behind the ship and 65
\* units off its row; offensive, near but not in easy reach; not offensive
\* and in easy reach.
NearPowerups(ship) ==
    { Powerup("green", ship.cx + 70, ship.cy + 40),
      Powerup("orange", ship.cx - 30, ship.cy + 65),
      Powerup("green", ship.cx + 100, ship.cy + 100),
      Powerup("red", ship.cx + 60, ship.cy + 20) }

\* no boss, a boss next to the ship, a boss across the screen
NearBosses(ship) ==
    { None,
      Boss(ship.cx + 100, ship.cy + 20, 60, 60, NoVelocity, FALSE),
      Boss(1000, 100, 60, 60, NoVelocity, FALSE) }

\* A ship about to call select_target of either strategy on a snapshot of
\* entities around it
NearInit ==
    /\ screen_height = resolution_height
    /\ ai_state = "patrol"
    /\ current_target = None
    /\ boss_engaged = FALSE
    /\ active_powerup = "none"
    /\ powerup_stacks = 0
    /\ invulnerable = FALSE
    /\ invulnerability_start_time = 0
    /\ invulnerability_duration = 0
    /\ clock = 0
    /\ strategy \in {"Aggressive", "Enhanced"}
    /\ \E y \in NearShipYs :
         /\ rect_y = y
         /\ aliens \in SeqUpTo(NearAliens(ShipRect(y)), MaxAliens)
         /\ boss_bullets \in SeqUpTo(NearBullets(ShipRect(y)), MaxBullets)
         /\ powerups \in SeqUpTo(NearPowerups(ShipRect(y)), MaxPowerups)
         /\ boss \in NearBosses(ShipRect(y))
    /\ predict_args = NoArgs
    /\ GameRunning
    /\ NoResult

NearSpec == NearInit /\ [][CallSelectTarget]_vars

\* the entities of the snapshot handed to select_target
Entities ==
    Range(aliens) \cup Range(boss_bullets) \cup Range(powerups)
        \cup (IF boss # None THEN {boss} ELSE {})

\* every entity is closer to the ship than the threat threshold of 150 and
\* every powerup is green or orange
AllNearAndOffensive ==
    /\ \A e \in Entities : Distance2(CallShip, e) < threat_threshold * threat_threshold
    /\ \A p \in Range(powerups) : p.type \in {"green", "orange"}

\* the strategy class that is not in use
OtherStrategy == IF strategy = "Enhanced" THEN "Aggressive" ELSE "Enhanced"

\* C39: on a snapshot whose entities are all closer than 150 units to the
\* ship and whose powerups are all green or orange, select_target of the
\* strategy in use returns what select_target of the other strategy returns.
C39_StrategiesAgreeNearby ==
    (last_op = "select_target" /\ AllNearAndOffensive)
        => selected = SelectionOf(OtherStrategy, rect_y, aliens, boss, powerups, boss_bullets)

\* a boss, a projectile, an enemy and a powerup next to the ship, and the
\* powerup preferred to the boss
C39_Witness ==
    /\ last_op = "select_target"
    /\ AllNearAndOffensive
    /\ boss # None
    /\ aliens # <<>>
    /\ boss_bullets # <<>>
    /\ powerups # <<>>
    /\ selected.action = "target_powerup"

\* C40: a call of predict_target_position ends in the return of its first
\* statement for a target flagged is_boss and after the prediction alone for
\* any other target; it never runs the block of lines 760-773, never raises,
\* and returns a position.
C40_BossBlockNeverEntered ==
    last_op = "predict"
        => /\ predict_path = (IF predict_args.target.is_boss
                              THEN "early_return" ELSE "prediction")
           /\ predicted \in [x : Int, y : Int]

\* a call on a target flagged is_boss with a zigzag pattern and no vertical
\* speed, the case line 770 is written for, has returned the target's centre
C40_Witness ==
    /\ last_op = "predict"
    /\ predict_args.target.is_boss
    /\ HasPattern(predict_args.target)
    /\ predict_args.target.pattern = "zigzag"
    /\ predict_args.target.velocity = <<0, 0>>
    /\ predict_path = "early_return"
    /\ predicted = [x |-> 1000 * predict_args.target.cx,
                    y |-> 1000 * predict_args.target.cy]

====
